---- MODULE Spec2Model ----
(***************************************************************************)
(* Webhook ingestion and reconciliation subsystem of the billing backend:  *)
(* the Polar webhook dispatcher and its event store, the subscription      *)
(* mutators, the circuit breaker and the reconciliation jobs.              *)
(*                                                                         *)
(* Convex queries and mutations are transactions, so each is one atomic    *)
(* step; an httpAction / internalAction is not, so it is a sequence of     *)
(* steps (one per awaited query, mutation or processor call) that          *)
(* interleaves with every other execution.                                 *)
(***************************************************************************)
EXTENDS Integers, Sequences, FiniteSets, TLC

\* ------------------------------------------------------------------ bounds
\* Number of webhook deliveries (dispatcher executions) in one behaviour.
MaxDeliveries == 2
\* Last minute the clock reaches.
MaxTime == 7
\* Cap on the breaker's failure counter when its functions are called directly.
MaxFailures == 4
\* Number of auditLogs rows after which no further reconcile run is started.
MaxAuditLogs == 2
\* Number of local subscriptions, besides sub_1, whose processor state has
\* drifted from the local row.
MaxDrifted == 10
\* Number of syncAllSubscriptions runs started.
MaxSyncRuns == 3

\* --------------------------------------------------------------- universes
EventIds == {"evt_1", "evt_2", "evt_3"}
SubIds == {"sub_1", "sub_2"}
CustIds == {"cus_1"}
\* Status strings the processor sends; "paused" is one the maps do not know.
PolarStatuses == {"active", "paused"}
Handlers == {"webhooks", "polarWebhook"}

\* POLAR_WEBHOOK_SECRET, configured in the deployment.
WebhookSecret == "whsec_live"

VARIABLES
  webhookEvents,   \* table webhookEvents: sequence of rows in creation order
  customers,       \* table customers
  subscriptions,   \* table subscriptions
  deliveries,      \* the dispatcher executions, in order of arrival
  mutatorCalls,    \* per event id: how many times a domain mutator was entered
  now,             \* the wall clock, in minutes
  circuitBreaker,  \* sync.ts module state: isOpen, failures, lastFailure, nextRetry
  breakerLog,      \* the last call made on the breaker and what it returned
  reconcileRun,    \* the execution of reconcileBilling, if one is in flight
  auditLogs,       \* table auditLogs
  polarCallLog,    \* the calls jobs made to the processor, and under what gate
  syncRun,         \* the execution of syncAllSubscriptions, if one is in flight
  billingSettings, \* table billingSettings (the lastSync_ rows)
  syncLog,         \* what the finished sync runs did
  polar,           \* the subscription sub_1 as the processor holds it
  statusCalls,     \* the calls made to the status-mapping functions
  lastOp,          \* the last subscription or customer operation that ran
  cancelRun,       \* the execution of cancelSubscription, if one is in flight
  invoices,        \* table invoices
  invoiceRun,      \* the execution of syncPendingInvoices, if one is in flight
  usageEvents,     \* table usageEvents
  cleanupRun,      \* the execution of cleanupOldRecords, if one is in flight
  usageRun,        \* the execution of batchIngestUsage, if one is in flight
  httpCall,        \* the execution of polarRequest, if one is in flight
  usageOverlap,    \* a second execution of batchIngestUsage, if one is in flight
  checkoutSessions, \* table checkoutSessions
  checkoutRun,     \* the execution of syncCheckoutStatus, if one is in flight
  resumeRun        \* the execution of resumeSubscription, if one is in flight

webhookVars == <<webhookEvents, deliveries, mutatorCalls>>
tableVars == <<customers, subscriptions>>
breakerVars == <<now, circuitBreaker, breakerLog>>
reconcileVars == <<reconcileRun, auditLogs>>
syncVars == <<syncRun, billingSettings, syncLog>>
lifecycleVars == <<statusCalls, lastOp, cancelRun>>
checkoutVars == <<checkoutSessions, checkoutRun>>
callerVars == <<usageOverlap, checkoutVars, resumeRun>>
maintenanceVars ==
  <<invoices, invoiceRun, usageEvents, cleanupRun, usageRun, httpCall, callerVars>>

vars == <<webhookEvents, customers, subscriptions, deliveries, mutatorCalls,
          now, circuitBreaker, breakerLog, reconcileRun, auditLogs, polarCallLog,
          syncRun, billingSettings, syncLog, polar,
          statusCalls, lastOp, cancelRun,
          invoices, invoiceRun, usageEvents, cleanupRun, usageRun, httpCall,
          usageOverlap, checkoutSessions, checkoutRun, resumeRun>>

\* ------------------------------------------------------------- signatures
\* crypto.createHmac("sha256", secret).update(payload).digest("hex"): a keyed
\* digest of the raw body, of fixed length.
HmacHexLen == 64
HmacHex(secret, payload) == [key |-> secret, digest |-> payload, len |-> HmacHexLen]

\* request.headers.get(...) || "": the empty string when no header is sent.
NoSignature == [key |-> "", digest |-> "", len |-> 0]

\* timingSafeEqual throws on buffers of different length (caught: false) and
\* compares the bytes otherwise.
verifyWebhookSignature(payload, signature, secret) ==
  LET expectedSignature == HmacHex(secret, payload)
  IN  IF signature.len # expectedSignature.len
        THEN FALSE
        ELSE signature.key = expectedSignature.key
             /\ signature.digest = expectedSignature.digest

\* ------------------------------------------------------------------ values
\* An optional field that is absent (undefined).
Undefined == <<>>

\* new Date(t).toISOString(), t in minutes: the digits, most significant
\* first, so that the strings compare as the code compares them.
toISOString(t) == <<t \div 10, t % 10>>

\* The billing period the processor reports for a subscription.
PeriodStart == toISOString(0)
PeriodEnd == toISOString(9)

\* An optional boolean that is present.
Some(v) == <<v>>

\* A metadata object: its key/value pairs, a value written as a number
\* (a text or a flag as the number that stands for it).  An absent metadata
\* spreads to no pairs ({...undefined}), so it reads as the empty object.
NoMetadata == {}
MetadataKeys(m) == {p[1] : p \in m}

\* A merge that adds the incoming value to the stored one on a shared key.
SpreadMerge_Accumulate(old, new) ==
  {p \in old : p[1] \notin MetadataKeys(new)}
    \cup {q \in new : q[1] \notin MetadataKeys(old)}
    \cup {<<x[1][1], x[1][2] + x[2][2]>> : x \in {y \in old \X new : y[1][1] = y[2][1]}}

\* { ...old, ...new }
SpreadMerge(old, new) == {p \in old : p[1] \notin MetadataKeys(new)} \cup new

\* --------------------------------------------------------------- requests
\* A raw body: text that JSON.parse accepts (json = TRUE, with the fields the
\* dispatcher reads) or text that it rejects (json = FALSE).
MalformedBody == [json |-> FALSE]
\* The processor's notifications: an event id names one notification, so a
\* redelivery carries the same payload.
PayloadOf(e) ==
  IF e = "evt_1" THEN
    [json |-> TRUE, id |-> e, type |-> "subscription.created",
     data |-> [id |-> "sub_1", customer_id |-> "cus_1", status |-> "active",
               current_period_start |-> PeriodStart, current_period_end |-> PeriodEnd,
               metadata |-> NoMetadata]]
  ELSE IF e = "evt_2" THEN
    [json |-> TRUE, id |-> e, type |-> "subscription.created",
     data |-> [id |-> "sub_2", customer_id |-> "cus_1", status |-> "paused",
               current_period_start |-> PeriodStart, current_period_end |-> PeriodEnd,
               metadata |-> NoMetadata]]
  ELSE
    [json |-> TRUE, id |-> e, type |-> "test.unknown",
     data |-> [id |-> "sub_1", customer_id |-> "cus_1", status |-> "active",
               current_period_start |-> PeriodStart, current_period_end |-> PeriodEnd,
               metadata |-> NoMetadata]]
Payloads == {PayloadOf(e) : e \in EventIds}
Bodies == Payloads \cup {MalformedBody}

\* What a sender can put in the signature header for a body: nothing, the
\* HMAC under the shared secret, an HMAC under another key, or a string of
\* another length.
ForgedSignatures(body) ==
  { HmacHex("attacker_key", body),
    [key |-> WebhookSecret, digest |-> body, len |-> 4] }
SignaturesFor(body) ==
  {NoSignature, HmacHex(WebhookSecret, body)} \cup ForgedSignatures(body)

\* The bodies sent without the shared secret's signature: one well-formed
\* notification and the malformed text.
UnsignedBodies == {PayloadOf("evt_1"), MalformedBody}

Requests ==
  UNION {[handler : Handlers, body : {b},
          signature : IF b \in UnsignedBodies THEN SignaturesFor(b)
                      ELSE {HmacHex(WebhookSecret, b)}] : b \in Bodies}

\* ----------------------------------------------------------- event store
\* A lookup that never finds a row.
getWebhookEventById_Blind(events, eventId) == 0

\* getWebhookEventById: .withIndex("byEventId").first(): the oldest row with
\* that event id; 0 stands for null.
getWebhookEventById(events, eventId) ==
  IF \E i \in 1..Len(events) : events[i].eventId = eventId
    THEN CHOOSE i \in 1..Len(events) :
           /\ events[i].eventId = eventId
           /\ \A j \in 1..(i - 1) : events[j].eventId # eventId
    ELSE 0

\* storeWebhookEvent: ctx.db.insert("webhookEvents", {..., attempts: 1}).
storeWebhookEvent(events, eventId, eventType) ==
  Append(events, [eventId |-> eventId, eventType |-> eventType,
                  processingResult |-> "none", error |-> "", attempts |-> 1])

\* A marking that writes nothing.
markWebhookEventProcessed_Skip(events, eventId, processingResult, error) == events

\* markWebhookEventProcessed: patches the first row with that event id, if any.
markWebhookEventProcessed(events, eventId, processingResult, error) ==
  LET i == getWebhookEventById(events, eventId)
  IN  IF i = 0 THEN events
      ELSE [events EXCEPT ![i].processingResult = processingResult,
                          ![i].error = error]

\* ------------------------------------------------------------- customers
\* getCustomerByPolarId: .withIndex("byPolarCustomerId").first(); 0 for null.
getCustomerByPolarId(custs, polarCustomerId) ==
  IF \E i \in 1..Len(custs) : custs[i].polarCustomerId = polarCustomerId
    THEN CHOOSE i \in 1..Len(custs) :
           /\ custs[i].polarCustomerId = polarCustomerId
           /\ \A j \in 1..(i - 1) : custs[j].polarCustomerId # polarCustomerId
    ELSE 0

\* createCustomerFromWebhook: patch the existing customer (email, and
\* metadata: polarCustomer.metadata || {}) or insert a new one.
createCustomerFromWebhook(custs, polarCustomer) ==
  LET existing == getCustomerByPolarId(custs, polarCustomer.id)
  IN  IF existing # 0
        THEN [custs EXCEPT ![existing].email = polarCustomer.email,
                           ![existing].metadata = polarCustomer.metadata]
        ELSE Append(custs, [polarCustomerId |-> polarCustomer.id,
                            email |-> polarCustomer.email,
                            metadata |-> polarCustomer.metadata])

\* updateCustomerFromPolar: ctx.db.patch(customerId, {email, metadata:
\* polarCustomer.metadata || {}, lastSyncedAt}).
updateCustomerFromPolar(custs, customerId, polarCustomer) ==
  [custs EXCEPT ![customerId].email = polarCustomer.email,
                ![customerId].metadata = polarCustomer.metadata]

\* --------------------------------------------------------- subscriptions
SubscriptionStates ==
  {"incomplete", "incomplete_expired", "trialing", "active",
   "past_due", "canceled", "unpaid", "revoked"}

\* The keys of the statusMap object literal; each maps to itself.
StatusMapKeys == SubscriptionStates \ {"revoked"}

\* The property names an object literal inherits from Object.prototype:
\* statusMap[key] finds these too, and what it finds is a function or an
\* object, which is truthy.
ObjectPrototypeKeys ==
  {"constructor", "toString", "toLocaleString", "valueOf", "hasOwnProperty",
   "isPrototypeOf", "propertyIsEnumerable", "__proto__",
   "__defineGetter__", "__defineSetter__", "__lookupGetter__", "__lookupSetter__"}
InheritedMember == "[Object.prototype member]"

\* statusMap[key]: the own property, else the inherited one, else undefined
\* (written "", which is falsy as undefined is).
statusMap(key) ==
  IF key \in StatusMapKeys THEN key
  ELSE IF key \in ObjectPrototypeKeys THEN InheritedMember
  ELSE ""

\* mapPolarStatus: statusMap[polarStatus] || "revoked"
mapPolarStatus(polarStatus) ==
  IF statusMap(polarStatus) # "" THEN statusMap(polarStatus) ELSE "revoked"

\* syncSubscription: statusMap[args.polarSubscription.status] || "revoked"
syncSubscriptionStatus(polarStatus) ==
  IF statusMap(polarStatus) # "" THEN statusMap(polarStatus) ELSE "revoked"

\* updateSubscriptionFromWebhook: the map is applied when updates.status is
\* truthy; otherwise status stays undefined (written "").
webhookStatus(updatesStatus) ==
  IF updatesStatus # ""
    THEN (IF statusMap(updatesStatus) # "" THEN statusMap(updatesStatus) ELSE "revoked")
    ELSE ""

\* .withIndex("byPolarSubscriptionId").first(); 0 for null.
getSubscriptionByPolarId(subs, polarSubscriptionId) ==
  IF \E i \in 1..Len(subs) : subs[i].polarSubscriptionId = polarSubscriptionId
    THEN CHOOSE i \in 1..Len(subs) :
           /\ subs[i].polarSubscriptionId = polarSubscriptionId
           /\ \A j \in 1..(i - 1) : subs[j].polarSubscriptionId # polarSubscriptionId
    ELSE 0

\* The row ctx.db.insert("subscriptions", ...) writes in createSubscription.
InsertedSubscription(args) ==
  [polarSubscriptionId |-> args.polarSubscriptionId,
   customerId |-> args.customerId,
   status |-> args.status,
   currentPeriodStart |-> args.currentPeriodStart,
   currentPeriodEnd |-> args.currentPeriodEnd,
   cancelAtPeriodEnd |-> FALSE,
   canceledAt |-> Undefined,
   endedAt |-> Undefined,
   metadata |-> args.metadata]

\* An upsert that inserts without looking for an existing row.
createSubscription_AlwaysInsert(subs, custs, args) ==
  Append(subs, InsertedSubscription(args))

\* createSubscription: patch the row with that external id (status, period
\* and metadata as given) or insert a new one.
createSubscription(subs, custs, args) ==
  LET existing == getSubscriptionByPolarId(subs, args.polarSubscriptionId)
  IN  IF existing # 0
        THEN [subs EXCEPT ![existing].status = args.status,
                          ![existing].currentPeriodStart = args.currentPeriodStart,
                          ![existing].currentPeriodEnd = args.currentPeriodEnd,
                          ![existing].metadata = args.metadata]
        ELSE Append(subs, InsertedSubscription(args))

\* syncSubscription: the reconciliation pull's upsert of one processor
\* subscription; inserts only when the customer row exists.
syncSubscription(subs, custs, customerId, polarSubscription) ==
  LET existing == getSubscriptionByPolarId(subs, polarSubscription.id)
      status == syncSubscriptionStatus(polarSubscription.status)
  IN  IF existing # 0
        THEN [subs EXCEPT ![existing].status = status,
                          ![existing].currentPeriodStart =
                             polarSubscription.current_period_start,
                          ![existing].currentPeriodEnd =
                             polarSubscription.current_period_end,
                          ![existing].cancelAtPeriodEnd =
                             polarSubscription.cancel_at_period_end,
                          ![existing].canceledAt = polarSubscription.canceled_at]
        ELSE IF customerId \in 1..Len(custs)
          THEN Append(subs, [polarSubscriptionId |-> polarSubscription.id,
                             customerId |-> customerId,
                             status |-> status,
                             currentPeriodStart |-> polarSubscription.current_period_start,
                             currentPeriodEnd |-> polarSubscription.current_period_end,
                             cancelAtPeriodEnd |-> polarSubscription.cancel_at_period_end,
                             canceledAt |-> polarSubscription.canceled_at,
                             endedAt |-> Undefined,
                             metadata |-> polarSubscription.metadata])
          ELSE subs

\* updateSubscription: each argument that is not undefined is written;
\* metadata is { ...subscription.metadata, ...args.metadata }.
updateSubscription(subs, subscriptionId, args) ==
  [subs EXCEPT
     ![subscriptionId].status = IF args.status # "" THEN args.status ELSE @,
     ![subscriptionId].currentPeriodStart =
        IF args.currentPeriodStart # Undefined THEN args.currentPeriodStart ELSE @,
     ![subscriptionId].currentPeriodEnd =
        IF args.currentPeriodEnd # Undefined THEN args.currentPeriodEnd ELSE @,
     ![subscriptionId].cancelAtPeriodEnd =
        IF args.cancelAtPeriodEnd # Undefined THEN args.cancelAtPeriodEnd[1] ELSE @,
     ![subscriptionId].canceledAt =
        IF args.canceledAt # Undefined THEN args.canceledAt ELSE @,
     ![subscriptionId].endedAt =
        IF args.endedAt # Undefined THEN args.endedAt ELSE @,
     ![subscriptionId].metadata = SpreadMerge(@, args.metadata)]

\* updateSubscriptionFromWebhook: the row with that external id, if any, is
\* patched with the mapped status and with each update that is truthy
\* (cancelAtPeriodEnd: that is not undefined); metadata is
\* { ...subscription.metadata, ...args.updates.metadata }.
updateSubscriptionFromWebhook(subs, polarSubscriptionId, updates) ==
  LET i == getSubscriptionByPolarId(subs, polarSubscriptionId)
      status == webhookStatus(updates.status)
  IN  IF i = 0 THEN subs
      ELSE [subs EXCEPT
              ![i].status = IF status # "" THEN status ELSE @,
              ![i].currentPeriodStart =
                 IF updates.currentPeriodStart # Undefined
                   THEN updates.currentPeriodStart ELSE @,
              ![i].currentPeriodEnd =
                 IF updates.currentPeriodEnd # Undefined
                   THEN updates.currentPeriodEnd ELSE @,
              ![i].cancelAtPeriodEnd =
                 IF updates.cancelAtPeriodEnd # Undefined
                   THEN updates.cancelAtPeriodEnd[1] ELSE @,
              ![i].canceledAt =
                 IF updates.canceledAt # Undefined THEN updates.canceledAt ELSE @,
              ![i].endedAt =
                 IF updates.endedAt # Undefined THEN updates.endedAt ELSE @,
              ![i].metadata = SpreadMerge(@, updates.metadata)]

\* The patch cannot be written when the mapped status is no value (a member
\* of Object.prototype): the mutation throws and commits nothing.
updateSubscriptionFromWebhookThrows(subs, polarSubscriptionId, updates) ==
  /\ getSubscriptionByPolarId(subs, polarSubscriptionId) # 0
  /\ webhookStatus(updates.status) = InheritedMember

\* The updates each notification handler passes to
\* updateSubscriptionFromWebhook; t is the time of processing.
NoUpdates ==
  [status |-> "", currentPeriodStart |-> Undefined, currentPeriodEnd |-> Undefined,
   cancelAtPeriodEnd |-> Undefined, canceledAt |-> Undefined, endedAt |-> Undefined,
   metadata |-> NoMetadata]

handleSubscriptionUpdated(subscriptionData) ==
  [NoUpdates EXCEPT
     !.status = subscriptionData.status,
     !.currentPeriodStart = subscriptionData.current_period_start,
     !.currentPeriodEnd = subscriptionData.current_period_end,
     !.cancelAtPeriodEnd = Some(subscriptionData.cancel_at_period_end),
     !.metadata = subscriptionData.metadata]

handleSubscriptionActive(subscriptionData) ==
  [NoUpdates EXCEPT
     !.status = "active",
     !.currentPeriodStart = subscriptionData.current_period_start,
     !.currentPeriodEnd = subscriptionData.current_period_end]

\* A handler that passes the payload's canceled_at as it is.
handleSubscriptionCanceled_NoFallback(subscriptionData, t) ==
  [NoUpdates EXCEPT
     !.status = "canceled",
     !.canceledAt = subscriptionData.canceled_at,
     !.cancelAtPeriodEnd = Some(subscriptionData.cancel_at_period_end),
     !.endedAt = subscriptionData.ended_at]

handleSubscriptionCanceled(subscriptionData, t) ==
  [NoUpdates EXCEPT
     !.status = "canceled",
     !.canceledAt = IF subscriptionData.canceled_at # Undefined
                      THEN subscriptionData.canceled_at ELSE toISOString(t),
     !.cancelAtPeriodEnd = Some(subscriptionData.cancel_at_period_end),
     !.endedAt = subscriptionData.ended_at]

handleSubscriptionRevoked(subscriptionData, t) ==
  [NoUpdates EXCEPT
     !.status = "revoked",
     !.endedAt = IF subscriptionData.ended_at # Undefined
                   THEN subscriptionData.ended_at ELSE toISOString(t)]

\* polarApi.subscriptions.cancel: the processor's answer to
\* {cancel_at_period_end: args.cancelAtPeriodEnd ?? true}.
polarCancel(polarSub, cancelAtPeriodEnd) ==
  [polarSub EXCEPT
     !.cancel_at_period_end =
        IF cancelAtPeriodEnd = Undefined THEN TRUE ELSE cancelAtPeriodEnd[1],
     !.status = IF cancelAtPeriodEnd = Some(FALSE) THEN "canceled" ELSE @]

\* What cancelSubscription passes to updateSubscription once the processor
\* has answered.
cancelSubscriptionArgs(polarSubscription, reason, feedback, t) ==
  [NoUpdates EXCEPT
     !.status = IF polarSubscription.cancel_at_period_end THEN "active" ELSE "canceled",
     !.cancelAtPeriodEnd = Some(polarSubscription.cancel_at_period_end),
     !.canceledAt = toISOString(t),
     !.metadata = {<<"cancellationReason", reason>>,
                   <<"cancellationFeedback", feedback>>}]

\* adminTools.revokeSubscription: the patch of the row.
revokeSubscription(subs, subscriptionId, reason, immediate, by, t) ==
  LET meta == {<<"revokedManually", 1>>, <<"revokedBy", by>>,
               <<"revokedReason", reason>>}
  IN  IF immediate
        THEN [subs EXCEPT ![subscriptionId].status = "revoked",
                          ![subscriptionId].endedAt = toISOString(t),
                          ![subscriptionId].metadata = SpreadMerge(@, meta)]
        ELSE [subs EXCEPT ![subscriptionId].cancelAtPeriodEnd = TRUE,
                          ![subscriptionId].canceledAt = toISOString(t),
                          ![subscriptionId].metadata = SpreadMerge(@, meta)]

\* adminTools.revokeSubscription: the auditLogs row it inserts.
revokeAuditLog(logs, subscriptionId, reason, immediate) ==
  Append(logs, [action |-> IF immediate THEN "subscription.revoked"
                                        ELSE "subscription.scheduled_cancel",
                resourceType |-> "subscription",
                resourceId |-> subscriptionId,
                metadata |-> [reason |-> reason, immediate |-> immediate]])

\* createSubscription throws when its status argument is none of the eight
\* literals of its validator, and ("Customer ... not found") when it has to
\* insert and ctx.db.get(customerId) is null.
createSubscriptionThrows(subs, custs, args) ==
  \/ args.status \notin SubscriptionStates
  \/ /\ getSubscriptionByPolarId(subs, args.polarSubscriptionId) = 0
     /\ args.customerId \notin 1..Len(custs)

\* -------------------------------------------------------- circuit breaker
FailureThreshold == 3
CooldownMinutes == 5

\* a < b on strings: lexicographic comparison, a proper prefix being smaller.
StringLess(a, b) ==
  \/ \E k \in 1..Len(a) :
       /\ k <= Len(b)
       /\ \A j \in 1..(k - 1) : a[j] = b[j]
       /\ a[k] < b[k]
  \/ /\ Len(a) < Len(b)
     /\ \A j \in 1..Len(a) : a[j] = b[j]

ClosedBreaker ==
  [isOpen |-> FALSE, failures |-> 0, lastFailure |-> Undefined, nextRetry |-> Undefined]

\* A breaker that goes on denying after nextRetry has passed.
checkCircuitBreaker_NeverRetries(cb, t) ==
  IF cb.isOpen /\ cb.nextRetry # Undefined
    THEN [ok |-> FALSE, cb |-> cb]
    ELSE [ok |-> TRUE, cb |-> cb]

\* checkCircuitBreaker(): what it returns (ok) and the breaker it leaves.
checkCircuitBreaker(cb, t) ==
  IF cb.isOpen /\ cb.nextRetry # Undefined
    THEN IF StringLess(toISOString(t), cb.nextRetry)
           THEN [ok |-> FALSE, cb |-> cb]
           ELSE [ok |-> TRUE, cb |-> [cb EXCEPT !.isOpen = FALSE, !.failures = 0]]
    ELSE [ok |-> TRUE, cb |-> cb]

\* A reset that clears the count and leaves the breaker open.
recordSuccess_CountOnly(cb) == [cb EXCEPT !.failures = 0]

recordSuccess(cb) == [cb EXCEPT !.failures = 0, !.isOpen = FALSE]

\* A breaker that opens one failure late.
recordFailure_OffByOne(cb, t) ==
  LET failures == cb.failures + 1
      counted == [cb EXCEPT !.failures = failures, !.lastFailure = toISOString(t)]
  IN  IF failures > FailureThreshold
        THEN [counted EXCEPT !.isOpen = TRUE,
                             !.nextRetry = toISOString(t + CooldownMinutes)]
        ELSE counted

recordFailure(cb, t) ==
  LET failures == cb.failures + 1
      counted == [cb EXCEPT !.failures = failures, !.lastFailure = toISOString(t)]
  IN  IF failures >= FailureThreshold
        THEN [counted EXCEPT !.isOpen = TRUE,
                             !.nextRetry = toISOString(t + CooldownMinutes)]
        ELSE counted

\* The record of the calls made on the breaker:
\*   op, at, result  the last call, when it was made, what a check returned
\*   streak          recordFailure calls in a row (no recordSuccess between),
\*                   counted anew once a check has let a tripped breaker pass
\*   failedAt        the time of the last recordFailure call
\*   tripped         the last call was a check made after >= 3 such failures
\*   phase           1 tripped, 2 then denied, 3 then allowed, 4 then success
NoBreakerCall ==
  [op |-> "none", at |-> 0, result |-> TRUE, streak |-> 0, failedAt |-> 0,
   tripped |-> FALSE, phase |-> 0]

LogCheck(log, r, t) ==
  [log EXCEPT !.op = "check", !.at = t, !.result = r.ok,
              !.tripped = log.streak >= FailureThreshold,
              !.streak = IF log.streak >= FailureThreshold /\ r.ok THEN 0 ELSE @,
              !.phase = IF @ \in {1, 2} /\ ~r.ok THEN 2
                        ELSE IF @ = 2 /\ r.ok THEN 3
                        ELSE IF @ = 3 THEN 3 ELSE @]

LogSuccess(log, t) ==
  [log EXCEPT !.op = "recordSuccess", !.at = t, !.streak = 0, !.tripped = FALSE,
              !.phase = IF @ = 3 THEN 4 ELSE 0]

LogFailure(log, t) ==
  [log EXCEPT !.op = "recordFailure", !.at = t, !.failedAt = t,
              !.tripped = FALSE,
              !.streak = IF @ < FailureThreshold THEN @ + 1 ELSE @,
              !.phase = IF log.streak + 1 >= FailureThreshold THEN 1 ELSE 0]

\* Time passes.
Tick ==
  /\ now < MaxTime
  /\ now' = now + 1
  /\ UNCHANGED <<circuitBreaker, breakerLog>>

\* The breaker's three functions, called by the jobs of sync.ts.
CallCheck ==
  /\ LET r == checkCircuitBreaker(circuitBreaker, now)
     IN  /\ circuitBreaker' = r.cb
         /\ breakerLog' = LogCheck(breakerLog, r, now)
  /\ UNCHANGED now

CallRecordSuccess ==
  /\ circuitBreaker' = recordSuccess(circuitBreaker)
  /\ breakerLog' = LogSuccess(breakerLog, now)
  /\ UNCHANGED now

CallRecordFailure ==
  /\ circuitBreaker.failures < MaxFailures
  /\ circuitBreaker' = recordFailure(circuitBreaker, now)
  /\ breakerLog' = LogFailure(breakerLog, now)
  /\ UNCHANGED now

\* ---------------------------------------------------------- the processor
\* Subscription objects as the processor's API returns them.
ApiSubscriptions(id, statuses) ==
  [id : {id}, status : statuses, cancel_at_period_end : BOOLEAN,
   current_period_start : {PeriodStart}, current_period_end : {PeriodEnd},
   ended_at : {Undefined}, metadata : {NoMetadata}]

\* The polarSubscription argument syncAllSubscriptions builds from a listed
\* subscription.
\* Statuses the processor can hold for a subscription, those it counts as
\* active, and the subscription as it is when the local row is created.
ProcessorStatuses == {"active", "trialing", "canceled"}
ActiveAtProcessor == {"active", "trialing"}
PolarInitially ==
  [id |-> "sub_1", status |-> "active", cancel_at_period_end |-> FALSE,
   current_period_start |-> PeriodStart, current_period_end |-> PeriodEnd,
   ended_at |-> Undefined, metadata |-> NoMetadata]

\* The processor changes the subscription (the customer cancels, pauses or
\* resumes it there); no notification is involved.
ProcessorChanges(polarSub) ==
  /\ polarSub # polar
  /\ polar' = polarSub
  /\ syncRun' = IF syncRun.pc = "idle" THEN syncRun ELSE [syncRun EXCEPT !.stale = TRUE]
  /\ syncLog' = [syncLog EXCEPT !.clean = FALSE]
  /\ UNCHANGED <<billingSettings, polarCallLog, tableVars, breakerVars>>

syncSubscriptionArgs(polarSub) ==
  [id |-> polarSub.id,
   status |-> polarSub.status,
   current_period_start |-> polarSub.current_period_start,
   current_period_end |-> polarSub.current_period_end,
   cancel_at_period_end |-> polarSub.cancel_at_period_end,
   canceled_at |-> polarSub.ended_at,
   metadata |-> polarSub.metadata]

\* ------------------------------------------------------ reconcileBilling
\* External ids that start with "manual_" (manually granted, not known to
\* the processor).
ManualIds == {"manual_1", "manual_sub_1", "manual_in_1"}
startsWithManual(id) == id \in ManualIds

\* Whether the breaker is open and nextRetry has not passed at time t.
BreakerDenies(cb, t) ==
  cb.isOpen /\ cb.nextRetry # Undefined /\ StringLess(toISOString(t), cb.nextRetry)

\* A call a job makes to the processor: whether the run had passed a breaker
\* check, and whether the breaker was denying at the time of the call.
PolarCall(job, checked) ==
  [job |-> job, checked |-> checked, whileOpen |-> BreakerDenies(circuitBreaker, now)]

\* getActiveSubscriptions: the rows with status active, as read by the query.
getActiveSubscriptions(subs) ==
  LET ids == {i \in 1..Len(subs) : subs[i].status = "active"}
      ordered == SelectSeq([i \in 1..Len(subs) |-> i], LAMBDA i : i \in ids)
  IN  [k \in 1..Len(ordered) |->
         [id |-> ordered[k],
          polarId |-> subs[ordered[k]].polarSubscriptionId,
          status |-> subs[ordered[k]].status,
          cancelAtPeriodEnd |-> subs[ordered[k]].cancelAtPeriodEnd]]

\* getAllCustomers({limit: 100}), as read by the query.
getAllCustomers(custs) ==
  [k \in 1..Len(custs) |->
     [id |-> k, polarId |-> custs[k].polarCustomerId, email |-> custs[k].email]]

\* What polarApi.subscriptions.get / customers.get can answer; "throws" when
\* the call fails.
Throws == [throws |-> TRUE]
SubscriptionAnswers ==
  [throws : {FALSE}, status : {"active", "past_due"}, cancel_at_period_end : BOOLEAN]
CustomerAnswers == [throws : {FALSE}, email : {"a@x.io", "b@x.io"}]

\* Subscriptions the processor holds as past_due and cancelling at period
\* end; for any other id it can answer anything.
DriftedIds ==
  SubSeq(<<"sub_3", "sub_4", "sub_5", "sub_6", "sub_7", "sub_8", "sub_9", "sub_10",
           "sub_11", "sub_12", "sub_13", "sub_14">>, 1, MaxDrifted)
SubscriptionAnswersFor(polarId) ==
  IF \E k \in 1..Len(DriftedIds) : DriftedIds[k] = polarId
    THEN {[throws |-> FALSE, status |-> "past_due", cancel_at_period_end |-> TRUE]}
    ELSE SubscriptionAnswers \cup {Throws}

\* discrepancies.slice(0, n)
slice(seq, n) == SubSeq(seq, 1, IF Len(seq) < n THEN Len(seq) ELSE n)
\* "Return first 20"
ResultLimit == 20

\* A comparison that ignores the status field.
subscriptionDiscrepancies_NoStatus(sub, polarSub) ==
  IF polarSub.throws
    THEN << [type |-> "not_found_in_polar", localId |-> sub.id, polarId |-> sub.polarId] >>
    ELSE IF polarSub.cancel_at_period_end # sub.cancelAtPeriodEnd
           THEN << [type |-> "cancellation_mismatch", localId |-> sub.id,
                    polarId |-> sub.polarId] >>
           ELSE <<>>

\* The entries one local subscription adds to the discrepancy list.
subscriptionDiscrepancies(sub, polarSub) ==
  IF polarSub.throws
    THEN << [type |-> "not_found_in_polar", localId |-> sub.id, polarId |-> sub.polarId] >>
    ELSE (IF polarSub.status # sub.status
            THEN << [type |-> "status_mismatch", localId |-> sub.id,
                     polarId |-> sub.polarId] >>
            ELSE <<>>)
         \o
         (IF polarSub.cancel_at_period_end # sub.cancelAtPeriodEnd
            THEN << [type |-> "cancellation_mismatch", localId |-> sub.id,
                     polarId |-> sub.polarId] >>
            ELSE <<>>)

\* The entries one local customer adds to the discrepancy list.
customerDiscrepancies(customer, polarCustomer) ==
  IF polarCustomer.throws
    THEN << [type |-> "not_found_in_polar", localId |-> customer.id,
             polarId |-> customer.polarId] >>
    ELSE IF polarCustomer.email # customer.email
           THEN << [type |-> "email_mismatch", localId |-> customer.id,
                    polarId |-> customer.polarId] >>
           ELSE <<>>

\* A log row that keeps the first entry only.
logDiscrepancies_FirstOnly(logs, checkType, discrepancies) ==
  Append(logs, [action |-> "reconciliation.discrepancies",
                resourceType |-> checkType,
                count |-> Len(discrepancies),
                discrepancies |-> SubSeq(discrepancies, 1, 1)])

\* logDiscrepancies: one auditLogs row holding the whole list.
logDiscrepancies(logs, checkType, discrepancies) ==
  Append(logs, [action |-> "reconciliation.discrepancies",
                resourceType |-> checkType,
                count |-> Len(discrepancies),
                discrepancies |-> discrepancies])

\* The execution of reconcileBilling: the rows its query returned (local),
\* the loop index, the list so far, and, of the comparisons it made, which
\* processor status it saw for which local row (seen); once it has returned,
\* what it returned (result).
NoResult == [discrepanciesFound |-> 0, discrepancies |-> <<>>]
IdleReconcile ==
  [pc |-> "idle", checkType |-> "none", local |-> <<>>, idx |-> 0,
   discrepancies |-> <<>>, seen |-> {}, result |-> NoResult]

CheckTypes == {"subscriptions", "customers", "invoices"}

\* The handler up to its first query; no breaker check is made.  checkType
\* "invoices" has no case in the switch.
ReconcileStart(checkType) ==
  /\ reconcileRun.pc = "idle"
  /\ Len(auditLogs) < MaxAuditLogs
  /\ reconcileRun' =
       [pc |-> "compare", checkType |-> checkType,
        local |-> IF checkType = "subscriptions" THEN getActiveSubscriptions(subscriptions)
                  ELSE IF checkType = "customers" THEN getAllCustomers(customers)
                  ELSE <<>>,
        idx |-> 1, discrepancies |-> <<>>, seen |-> {}, result |-> NoResult]
  /\ UNCHANGED <<auditLogs, polarCallLog, tableVars, breakerVars>>

\* A loop iteration for a manual_ id: no call.
ReconcileSkipManual ==
  /\ reconcileRun.pc = "compare"
  /\ reconcileRun.idx <= Len(reconcileRun.local)
  /\ startsWithManual(reconcileRun.local[reconcileRun.idx].polarId)
  /\ reconcileRun' = [reconcileRun EXCEPT !.idx = @ + 1]
  /\ UNCHANGED <<auditLogs, polarCallLog, tableVars, breakerVars>>

\* A loop iteration that asks the processor and compares.
ReconcileCompare(answer) ==
  /\ reconcileRun.pc = "compare"
  /\ reconcileRun.idx <= Len(reconcileRun.local)
  /\ LET item == reconcileRun.local[reconcileRun.idx]
     IN  /\ ~startsWithManual(item.polarId)
         /\ IF reconcileRun.checkType = "subscriptions"
              THEN /\ answer \in SubscriptionAnswersFor(item.polarId)
                   /\ reconcileRun' = [reconcileRun EXCEPT
                        !.idx = @ + 1,
                        !.discrepancies = @ \o subscriptionDiscrepancies(item, answer),
                        !.seen = IF answer.throws THEN @
                                 ELSE @ \cup {[localId |-> item.id,
                                               local |-> item.status,
                                               polar |-> answer.status]}]
              ELSE /\ answer \in CustomerAnswers \cup {Throws}
                   /\ reconcileRun' = [reconcileRun EXCEPT
                        !.idx = @ + 1,
                        !.discrepancies = @ \o customerDiscrepancies(item, answer)]
  /\ polarCallLog' = polarCallLog \cup {PolarCall("reconcileBilling", FALSE)}
  /\ UNCHANGED <<auditLogs, tableVars, breakerVars>>

\* After the loop: log the list when it is not empty, and return.
ReconcileFinish ==
  /\ reconcileRun.pc = "compare"
  /\ reconcileRun.idx > Len(reconcileRun.local)
  /\ auditLogs' = IF Len(reconcileRun.discrepancies) > 0
                    THEN logDiscrepancies(auditLogs, reconcileRun.checkType,
                                          reconcileRun.discrepancies)
                    ELSE auditLogs
  /\ reconcileRun' = [reconcileRun EXCEPT
        !.pc = "idle",
        !.result = [discrepanciesFound |-> Len(reconcileRun.discrepancies),
                    discrepancies |-> slice(reconcileRun.discrepancies, ResultLimit)]]
  /\ UNCHANGED <<polarCallLog, tableVars, breakerVars>>

\* ------------------------------------------------- syncAllSubscriptions
\* What polarApi.subscriptions.list({customer_id, active: true}) answers when
\* the call succeeds: the customer's subscriptions that are active at the
\* processor.
listSubscriptions(polarSub, active) ==
  [throws |-> FALSE,
   items |-> IF active => polarSub.status \in ActiveAtProcessor
               THEN <<polarSub>> ELSE <<>>]

\* recordSyncStatus: inserts a billingSettings row (never patches one).
recordSyncStatus(rows, type, status, synced, failed, errors) ==
  Append(rows, [key |-> <<"lastSync_", type>>,
                status |-> status, synced |-> synced, failed |-> failed,
                errors |-> errors])

\* The execution of syncAllSubscriptions: the customers its query returned
\* (local), the loop index, the items of the page being written, the
\* counters, of its processor calls how many were made and how many
\* answered, and whether the processor changed the subscription while the
\* run was in flight (stale).
IdleSync ==
  [pc |-> "idle", local |-> <<>>, idx |-> 0, items |-> <<>>,
   synced |-> 0, failed |-> 0, errors |-> <<>>, calls |-> 0, answered |-> 0,
   stale |-> FALSE]

\* Of the runs that have ended: how many were started (runs), how many in a
\* row made processor calls that all failed (allFailed) and when the last of
\* them ended (at), how the last run ended (outcome), and whether a run
\* called the processor within the cooldown after three such runs in a row
\* (calledAfter); and whether a run has completed with no failure that began
\* after the processor last changed the subscription (clean).
NoSyncRuns ==
  [runs |-> 0, allFailed |-> 0, at |-> 0, outcome |-> "none", calledAfter |-> FALSE,
   clean |-> FALSE]

\* Three runs in a row have had every processor call fail, and the cooldown
\* since the last of them has not elapsed at time t.
SuspensionDue(log, t) ==
  log.allFailed >= FailureThreshold /\ t < log.at + CooldownMinutes

\* The end of a run in the log.
SyncEnds(log, run, outcome, t) ==
  [log EXCEPT !.outcome = outcome,
              !.allFailed = IF run.calls > 0 /\ run.answered = 0 THEN @ + 1
                            ELSE IF run.answered > 0 THEN 0
                            ELSE @,
              !.at = IF run.calls > 0 /\ run.answered = 0 THEN t ELSE @]

\* The handler up to its first await: the breaker check, and the skipped
\* result when it answers false.
SyncStart ==
  /\ syncRun.pc = "idle"
  /\ syncLog.runs < MaxSyncRuns
  /\ LET r == checkCircuitBreaker(circuitBreaker, now)
     IN  /\ circuitBreaker' = r.cb
         /\ breakerLog' = LogCheck(breakerLog, r, now)
         /\ IF r.ok
              THEN /\ syncRun' = [IdleSync EXCEPT !.pc = "query"]
                   /\ syncLog' = [syncLog EXCEPT !.runs = @ + 1]
              ELSE /\ syncRun' = IdleSync
                   /\ syncLog' = [syncLog EXCEPT !.runs = @ + 1, !.outcome = "skipped"]
  /\ UNCHANGED <<now, billingSettings, polarCallLog, tableVars>>

\* runQuery(getAllCustomers) answers.
SyncGetCustomers ==
  /\ syncRun.pc = "query"
  /\ syncRun' = [syncRun EXCEPT !.pc = "loop", !.local = getAllCustomers(customers),
                                !.idx = 1]
  /\ UNCHANGED <<billingSettings, syncLog, polarCallLog, tableVars, breakerVars>>

\* runQuery(getAllCustomers) or runMutation(recordSyncStatus) throws: the
\* outer catch records the failure on the breaker.
SyncOuterThrows ==
  /\ \/ syncRun.pc = "query"
     \/ syncRun.pc = "loop" /\ syncRun.idx > Len(syncRun.local)
  /\ circuitBreaker' = recordFailure(circuitBreaker, now)
  /\ breakerLog' = LogFailure(breakerLog, now)
  /\ syncRun' = [syncRun EXCEPT !.pc = "failed"]
  /\ UNCHANGED <<now, billingSettings, syncLog, polarCallLog, tableVars>>

\* A loop iteration for a manual_ customer: no call.
SyncSkipManual ==
  /\ syncRun.pc = "loop"
  /\ syncRun.idx <= Len(syncRun.local)
  /\ startsWithManual(syncRun.local[syncRun.idx].polarId)
  /\ syncRun' = [syncRun EXCEPT !.idx = @ + 1]
  /\ UNCHANGED <<billingSettings, syncLog, polarCallLog, tableVars, breakerVars>>

\* A per-customer catch that also records the failure on the breaker.
SyncList_TripsBreaker(answer) ==
  /\ syncRun.pc = "loop"
  /\ syncRun.idx <= Len(syncRun.local)
  /\ ~startsWithManual(syncRun.local[syncRun.idx].polarId)
  /\ polarCallLog' = polarCallLog \cup {PolarCall("syncAllSubscriptions", TRUE)}
  /\ syncLog' = [syncLog EXCEPT
                   !.calledAfter = @ \/ SuspensionDue(syncLog, now)]
  /\ IF answer.throws
       THEN /\ syncRun' = [syncRun EXCEPT
                             !.calls = @ + 1, !.failed = @ + 1,
                             !.errors = Append(@, syncRun.local[syncRun.idx].id),
                             !.idx = @ + 1]
            /\ circuitBreaker' = recordFailure(circuitBreaker, now)
            /\ breakerLog' = LogFailure(breakerLog, now)
       ELSE /\ syncRun' = [syncRun EXCEPT
                             !.calls = @ + 1, !.answered = @ + 1,
                             !.pc = IF answer.items = <<>> THEN @ ELSE "items",
                             !.idx = IF answer.items = <<>> THEN @ + 1 ELSE @,
                             !.items = answer.items]
            /\ UNCHANGED <<circuitBreaker, breakerLog>>
  /\ UNCHANGED <<billingSettings, tableVars, now>>

\* polarApi.subscriptions.list for the customer at idx; a failure is caught
\* by the per-customer catch (failed++, errors.push) and the loop goes on.
SyncList(answer) ==
  /\ syncRun.pc = "loop"
  /\ syncRun.idx <= Len(syncRun.local)
  /\ ~startsWithManual(syncRun.local[syncRun.idx].polarId)
  /\ polarCallLog' = polarCallLog \cup {PolarCall("syncAllSubscriptions", TRUE)}
  /\ syncLog' = [syncLog EXCEPT
                   !.calledAfter = @ \/ SuspensionDue(syncLog, now)]
  /\ IF answer.throws
       THEN syncRun' = [syncRun EXCEPT
                          !.calls = @ + 1, !.failed = @ + 1,
                          !.errors = Append(@, syncRun.local[syncRun.idx].id),
                          !.idx = @ + 1]
       ELSE IF answer.items = <<>>
         THEN syncRun' = [syncRun EXCEPT
                            !.calls = @ + 1, !.answered = @ + 1, !.idx = @ + 1]
         ELSE syncRun' = [syncRun EXCEPT
                            !.calls = @ + 1, !.answered = @ + 1,
                            !.pc = "items", !.items = answer.items]
  /\ UNCHANGED <<billingSettings, tableVars, breakerVars>>

\* runMutation(syncSubscription) for the next item of the page; synced++.
SyncItem ==
  /\ syncRun.pc = "items"
  /\ subscriptions' = syncSubscription(subscriptions, customers,
                                       syncRun.local[syncRun.idx].id,
                                       syncSubscriptionArgs(Head(syncRun.items)))
  /\ syncRun' = [syncRun EXCEPT
                   !.synced = @ + 1,
                   !.items = Tail(@),
                   !.pc = IF Len(syncRun.items) = 1 THEN "loop" ELSE "items",
                   !.idx = IF Len(syncRun.items) = 1 THEN @ + 1 ELSE @]
  /\ UNCHANGED <<customers, billingSettings, syncLog, polarCallLog, breakerVars>>

\* After the loop: recordSyncStatus (success or partial), then
\* recordSuccess(), whatever the per-customer results were.
SyncRecord ==
  /\ syncRun.pc = "loop"
  /\ syncRun.idx > Len(syncRun.local)
  /\ billingSettings' =
       recordSyncStatus(billingSettings, "subscriptions",
                        IF syncRun.failed = 0 THEN "success" ELSE "partial",
                        syncRun.synced, syncRun.failed, syncRun.errors)
  /\ circuitBreaker' = recordSuccess(circuitBreaker)
  /\ breakerLog' = LogSuccess(breakerLog, now)
  /\ syncLog' = [SyncEnds(syncLog, syncRun, "completed", now) EXCEPT
                   !.clean = @ \/ (syncRun.failed = 0 /\ ~syncRun.stale)]
  /\ syncRun' = IdleSync
  /\ UNCHANGED <<now, polarCallLog, tableVars>>

\* The rest of the outer catch: recordSyncStatus(failed), then rethrow.
SyncRecordFailed ==
  /\ syncRun.pc = "failed"
  /\ billingSettings' =
       recordSyncStatus(billingSettings, "subscriptions", "failed", 0, 0, <<"system">>)
  /\ syncLog' = SyncEnds(syncLog, syncRun, "threw", now)
  /\ syncRun' = IdleSync
  /\ UNCHANGED <<polarCallLog, tableVars, breakerVars>>

\* ------------------------------------------------------------ dispatcher
\* One execution of an HTTP handler for POST /polar/webhook.  pc is the await
\* it stands before; status is the HTTP status once it has answered (0 before).
\*   enteredMutator  this execution entered a domain mutator (handle*)
\*   threw           the domain mutator threw in this execution
\*   overlapped      another execution for the same event id was in flight
\*                   while this one ran
\*   seenOutcome     the stored outcome of the event when this one arrived
\*   marks           how many times this execution called markWebhookEventProcessed
NewDelivery(request) ==
  [request |-> request, pc |-> "start", status |-> 0, customer |-> 0,
   enteredMutator |-> FALSE, threw |-> FALSE, stored |-> FALSE,
   overlapped |-> FALSE, seenOutcome |-> "absent", marks |-> 0]

\* The handler has answered; its local variables are gone.
Finished(d, status) == [d EXCEPT !.pc = "done", !.status = status, !.customer = 0]

InFlight(d) == d.pc # "done"

\* The event id an execution works on (payload.id), "" when it never gets one.
EventIdOf(request) == IF request.body.json THEN request.body.id ELSE ""

\* polarWebhook.handlePolarWebhook (the handler http.ts registers): no await
\* between reading the body and answering, so one step.
polarWebhook_Status(request) ==
  IF request.signature = NoSignature THEN 400
  ELSE IF ~request.body.json THEN 400
  ELSE 200

\* webhooks.handlePolarWebhook up to its first query: the answer it gives
\* without touching the store, or 0 when it goes on to the idempotency check.
webhooks_Reject(request) ==
  IF request.signature = NoSignature THEN 401
  ELSE IF ~verifyWebhookSignature(request.body, request.signature, WebhookSecret) THEN 401
  ELSE IF ~request.body.json THEN 500   \* JSON.parse throws: outer catch
  ELSE 0

\* A request arrives and runs to its first await that touches shared state:
\* the whole of polarWebhook's handler, or webhooks' handler up to and
\* including the getWebhookEventById query.
Arrive(request) ==
  /\ Len(deliveries) < MaxDeliveries
  /\ LET d == NewDelivery(request)
         eid == EventIdOf(request)
         passes == request.handler = "webhooks" /\ webhooks_Reject(request) = 0
         existingEvent == getWebhookEventById(webhookEvents, eid)
         concurrent == {i \in 1..Len(deliveries) :
                          /\ InFlight(deliveries[i])
                          /\ EventIdOf(deliveries[i].request) = eid}
         marked == [i \in 1..Len(deliveries) |->
                      IF passes /\ i \in concurrent
                        THEN [deliveries[i] EXCEPT !.overlapped = TRUE]
                        ELSE deliveries[i]]
         me == IF request.handler = "polarWebhook"
                 THEN Finished(d, polarWebhook_Status(request))
               ELSE IF ~passes
                 THEN Finished(d, webhooks_Reject(request))
               ELSE IF existingEvent # 0
                 THEN Finished([d EXCEPT
                        !.seenOutcome = webhookEvents[existingEvent].processingResult,
                        !.overlapped = concurrent # {}], 200)
               ELSE [d EXCEPT !.pc = "store", !.overlapped = concurrent # {}]
     IN  deliveries' = Append(marked, me)
  /\ UNCHANGED <<webhookEvents, customers, subscriptions, mutatorCalls>>

\* await ctx.runMutation(internal.webhooks.storeWebhookEvent, ...)
StoreEvent(i) ==
  /\ deliveries[i].pc = "store"
  /\ LET b == deliveries[i].request.body
     IN  webhookEvents' = storeWebhookEvent(webhookEvents, b.id, b.type)
  /\ deliveries' = [deliveries EXCEPT ![i].pc = "dispatch", ![i].stored = TRUE]
  /\ UNCHANGED <<customers, subscriptions, mutatorCalls>>

\* A switch whose default branch throws.
Dispatch_DefaultThrows(i) ==
  /\ deliveries[i].pc = "dispatch"
  /\ LET b == deliveries[i].request.body
     IN  IF b.type = "subscription.created"
           THEN LET c == getCustomerByPolarId(customers, b.data.customer_id)
                IN  /\ deliveries' = [deliveries EXCEPT
                          ![i].enteredMutator = TRUE,
                          ![i].customer = c,
                          ![i].pc = IF c = 0 THEN "createCustomer"
                                             ELSE "createSubscription"]
                    /\ mutatorCalls' = [mutatorCalls EXCEPT ![b.id] = @ + 1]
           ELSE /\ deliveries' = [deliveries EXCEPT ![i].pc = "markError",
                                                    ![i].threw = TRUE]
                /\ UNCHANGED mutatorCalls
  /\ UNCHANGED <<webhookEvents, customers, subscriptions>>

\* switch (eventType): the default branch only logs; subscription.created
\* enters handleSubscriptionCreated, whose first await is getCustomerByPolarId.
Dispatch(i) ==
  /\ deliveries[i].pc = "dispatch"
  /\ LET b == deliveries[i].request.body
     IN  IF b.type = "subscription.created"
           THEN LET c == getCustomerByPolarId(customers, b.data.customer_id)
                IN  /\ deliveries' = [deliveries EXCEPT
                          ![i].enteredMutator = TRUE,
                          ![i].customer = c,
                          ![i].pc = IF c = 0 THEN "createCustomer"
                                             ELSE "createSubscription"]
                    /\ mutatorCalls' = [mutatorCalls EXCEPT ![b.id] = @ + 1]
           ELSE /\ deliveries' = [deliveries EXCEPT ![i].pc = "markSuccess"]
                /\ UNCHANGED mutatorCalls
  /\ UNCHANGED <<webhookEvents, customers, subscriptions>>

\* A mutation that throws commits nothing; control goes to the catch block.
MutatorThrows(i) ==
  /\ deliveries[i].pc \in {"createCustomer", "createSubscription"}
  /\ deliveries' = [deliveries EXCEPT ![i].pc = "markError", ![i].threw = TRUE]
  /\ UNCHANGED <<webhookEvents, customers, subscriptions, mutatorCalls>>

\* createCustomerFromWebhook, then getCustomerById of the id it returned.
CreateCustomer(i) ==
  /\ deliveries[i].pc = "createCustomer"
  /\ LET b == deliveries[i].request.body
         after == createCustomerFromWebhook(customers,
                    [id |-> b.data.customer_id, email |-> "",
                     metadata |-> NoMetadata])
     IN  /\ customers' = after
         /\ deliveries' = [deliveries EXCEPT
               ![i].customer = getCustomerByPolarId(after, b.data.customer_id),
               ![i].pc = "createSubscription"]
  /\ UNCHANGED <<webhookEvents, subscriptions, mutatorCalls>>

\* ctx.runMutation(internal.subscriptions.createSubscription, ...)
CreateSubscription(i) ==
  /\ deliveries[i].pc = "createSubscription"
  /\ LET b == deliveries[i].request.body
         args == [customerId |-> deliveries[i].customer,
                  polarSubscriptionId |-> b.data.id,
                  status |-> mapPolarStatus(b.data.status),
                  currentPeriodStart |-> b.data.current_period_start,
                  currentPeriodEnd |-> b.data.current_period_end,
                  metadata |-> b.data.metadata]
     IN  IF createSubscriptionThrows(subscriptions, customers, args)
           THEN /\ deliveries' = [deliveries EXCEPT ![i].pc = "markError",
                                                    ![i].threw = TRUE]
                /\ UNCHANGED subscriptions
           ELSE /\ subscriptions' = createSubscription(subscriptions, customers, args)
                /\ deliveries' = [deliveries EXCEPT ![i].pc = "markSuccess"]
  /\ UNCHANGED <<webhookEvents, customers, mutatorCalls>>

\* markWebhookEventProcessed(success) and the 200 that follows it.
MarkSuccess(i) ==
  /\ deliveries[i].pc = "markSuccess"
  /\ webhookEvents' = markWebhookEventProcessed(
        webhookEvents, deliveries[i].request.body.id, "success", "")
  /\ deliveries' = [deliveries EXCEPT ![i] = Finished([@ EXCEPT !.marks = @ + 1], 200)]
  /\ UNCHANGED <<customers, subscriptions, mutatorCalls>>

\* markWebhookEventProcessed(success) throws (the mutation commits nothing):
\* the call is inside the try block, so control goes to the catch block.
MarkSuccessThrows(i) ==
  /\ deliveries[i].pc = "markSuccess"
  /\ deliveries' = [deliveries EXCEPT ![i].pc = "markError", ![i].marks = @ + 1]
  /\ UNCHANGED <<webhookEvents, customers, subscriptions, mutatorCalls>>

\* The catch block: markWebhookEventProcessed(error, message), then 500.
MarkError(i) ==
  /\ deliveries[i].pc = "markError"
  /\ webhookEvents' = markWebhookEventProcessed(
        webhookEvents, deliveries[i].request.body.id, "error", "mutator threw")
  /\ deliveries' = [deliveries EXCEPT ![i] = Finished([@ EXCEPT !.marks = @ + 1], 500)]
  /\ UNCHANGED <<customers, subscriptions, mutatorCalls>>

\* markWebhookEventProcessed(error) throws inside the catch block: the outer
\* catch answers 500 and nothing is recorded.
MarkErrorThrows(i) ==
  /\ deliveries[i].pc = "markError"
  /\ deliveries' = [deliveries EXCEPT ![i] = Finished([@ EXCEPT !.marks = @ + 1], 500)]
  /\ UNCHANGED <<webhookEvents, customers, subscriptions, mutatorCalls>>

\* A reconciliation pull's upsert (sync.syncSubscription), one transaction,
\* for a customer row the job read from the customers table.
SyncSubscription(customerId, polarSubscription) ==
  /\ customerId \in 1..Len(customers)
  /\ subscriptions' =
       syncSubscription(subscriptions, customers, customerId, polarSubscription)
  /\ UNCHANGED <<webhookEvents, customers, deliveries, mutatorCalls>>

\* What a pull can pass to syncSubscription for the customer.
PolarSubscriptions ==
  {syncSubscriptionArgs(p) : p \in ApiSubscriptions("sub_1", PolarStatuses)}

\* No operation has run yet; no cancelSubscription is in flight.
NoOp == [op |-> "none", n |-> 0]
IdleCancel == [pc |-> "idle"]
\* No maintenance job is running and no request to the processor is in flight.
IdleInvoiceSync ==
  [pc |-> "idle", local |-> <<>>, idx |-> 0, updated |-> 0, failed |-> 0,
   runs |-> 0, result |-> ""]
IdleCleanup ==
  [pc |-> "idle", cutoff |-> Undefined, local |-> <<>>, idx |-> 0,
   cleaned |-> [webhookEvents |-> 0, usageEvents |-> 0, auditLogs |-> 0],
   runs |-> 0, result |-> ""]
IdleUsage ==
  [pc |-> "idle", local |-> <<>>, groups |-> <<>>, g |-> 0, k |-> 0,
   sent |-> <<>>, processed |-> 0, failed |-> 0, runs |-> 0, result |-> ""]
\* No caller-started execution is in flight.
IdleCheckoutSync == [pc |-> "idle"]
IdleResume == [pc |-> "idle"]
IdleCallers ==
  /\ usageOverlap = IdleUsage
  /\ checkoutSessions = <<>>
  /\ checkoutRun = IdleCheckoutSync
  /\ resumeRun = IdleResume

NoHttpCall ==
  [pc |-> "idle", retries |-> 0, attempt |-> 0, lastError |-> Undefined,
   log |-> <<>>, waits |-> <<>>]

IdleWebhook ==
  /\ webhookEvents = <<>>
  /\ deliveries = <<>>
  /\ mutatorCalls = [e \in EventIds |-> 0]

IdleBreaker ==
  /\ now = 0
  /\ circuitBreaker = ClosedBreaker
  /\ breakerLog = NoBreakerCall

IdleJobs ==
  /\ reconcileRun = IdleReconcile
  /\ auditLogs = <<>>
  /\ polarCallLog = {}
  /\ syncRun = IdleSync
  /\ billingSettings = <<>>
  /\ syncLog = NoSyncRuns
  /\ polar = PolarInitially
  /\ statusCalls = <<>>
  /\ lastOp = NoOp
  /\ cancelRun = IdleCancel
  /\ invoices = <<>>
  /\ invoiceRun = IdleInvoiceSync
  /\ usageEvents = <<>>
  /\ cleanupRun = IdleCleanup
  /\ usageRun = IdleUsage
  /\ httpCall = NoHttpCall
  /\ IdleCallers

Init ==
  /\ IdleWebhook
  /\ customers = <<>>
  /\ subscriptions = <<>>
  /\ IdleBreaker
  /\ IdleJobs

\* The dispatcher and the pulls touch neither the breaker nor the jobs' state.
DispatcherFrame ==
  UNCHANGED <<breakerVars, reconcileVars, polarCallLog, syncVars, polar, lifecycleVars,
              maintenanceVars>>

Next ==
  \/ \E r \in Requests : Arrive(r) /\ DispatcherFrame
  \/ \E i \in 1..Len(deliveries) : StoreEvent(i) /\ DispatcherFrame
  \/ \E i \in 1..Len(deliveries) : Dispatch(i) /\ DispatcherFrame
  \/ \E i \in 1..Len(deliveries) : MutatorThrows(i) /\ DispatcherFrame
  \/ \E i \in 1..Len(deliveries) : CreateCustomer(i) /\ DispatcherFrame
  \/ \E i \in 1..Len(deliveries) : CreateSubscription(i) /\ DispatcherFrame
  \/ \E i \in 1..Len(deliveries) : MarkSuccess(i) /\ DispatcherFrame
  \/ \E i \in 1..Len(deliveries) : MarkError(i) /\ DispatcherFrame
  \/ \E c \in 1..Len(customers), p \in PolarSubscriptions :
       SyncSubscription(c, p) /\ DispatcherFrame

Spec == Init /\ [][Next]_vars

\* ------------------------------------------------- dispatcher properties
\* An execution of webhooks.handlePolarWebhook that passed authentication and
\* parsing, i.e. one that reached the idempotency check.
Authentic(d) ==
  d.request.handler = "webhooks" /\ webhooks_Reject(d.request) = 0

SameEvent(d1, d2) == EventIdOf(d1.request) = EventIdOf(d2.request)

\* Two authentic deliveries of one event id, one after the other (neither ran
\* while another execution for that event id was in flight), both answered,
\* with no mutator exception.
DeliveredTwiceInSequence(i, j) ==
  /\ i < j
  /\ Authentic(deliveries[i]) /\ Authentic(deliveries[j])
  /\ SameEvent(deliveries[i], deliveries[j])
  /\ deliveries[i].pc = "done" /\ deliveries[j].pc = "done"
  /\ ~deliveries[i].overlapped /\ ~deliveries[j].overlapped
  /\ \A k \in 1..Len(deliveries) :
       SameEvent(deliveries[k], deliveries[i]) => ~deliveries[k].threw

C2_RetryContract ==
  \A j \in 1..Len(deliveries) :
    ( /\ Authentic(deliveries[j])
      /\ deliveries[j].pc = "done"
      /\ deliveries[j].seenOutcome = "error" )
    => deliveries[j].enteredMutator

\* C3: under any interleaving of dispatcher executions for one event id, at
\* most one webhookEvents row with that id is stored and the domain mutator
\* for it is dispatched at most once.
C3_AtomicRecording ==
  \A e \in EventIds :
    /\ Cardinality({i \in 1..Len(webhookEvents) : webhookEvents[i].eventId = e}) <= 1
    /\ mutatorCalls[e] <= 1

\* C4: a POST without a signature header is answered with 401, writes no
\* webhookEvents row and runs no domain mutator, whichever handler serves it.
C4_MissingSignature401 ==
  \A i \in 1..Len(deliveries) :
    ( /\ deliveries[i].pc = "done"
      /\ deliveries[i].request.signature = NoSignature )
    => /\ deliveries[i].status = 401
       /\ ~deliveries[i].stored
       /\ ~deliveries[i].enteredMutator

\* C5: a request whose signature header is present but is not the HMAC of the
\* raw body under the shared secret is rejected (answered with a 4xx status,
\* never 200) and causes no event store write and no mutator run, whichever
\* handler serves it.
C5_BadSignatureRejected ==
  \A i \in 1..Len(deliveries) :
    ( /\ deliveries[i].pc = "done"
      /\ deliveries[i].request.signature # NoSignature
      /\ ~verifyWebhookSignature(deliveries[i].request.body,
                                 deliveries[i].request.signature, WebhookSecret) )
    => /\ deliveries[i].status \in {400, 401, 403}
       /\ ~deliveries[i].stored
       /\ ~deliveries[i].enteredMutator

\* C6: after any interleaving of subscription.created notifications and
\* reconciliation pulls, the subscriptions table holds at most one row per
\* external subscription id.
C6_NoDuplicateSubscriptions ==
  \A i, j \in 1..Len(subscriptions) :
    subscriptions[i].polarSubscriptionId = subscriptions[j].polarSubscriptionId
      => i = j

\* Two notifications have gone through createSubscription for sub_1 and a
\* pull has patched the row they share.
C6_Witness ==
  /\ \E i, j \in 1..Len(deliveries) :
       /\ i # j
       /\ deliveries[i].pc = "done" /\ deliveries[j].pc = "done"
       /\ deliveries[i].status = 200 /\ deliveries[j].status = 200
       /\ deliveries[i].enteredMutator /\ deliveries[j].enteredMutator
       /\ deliveries[i].request.body.data.id = "sub_1"
       /\ deliveries[j].request.body.data.id = "sub_1"
  /\ \E r \in 1..Len(subscriptions) :
       /\ subscriptions[r].polarSubscriptionId = "sub_1"
       /\ subscriptions[r].cancelAtPeriodEnd

\* ------------------------------------------- circuit breaker on its own
\* The breaker's functions touch only the breaker.
BreakerFrame ==
  UNCHANGED <<webhookVars, tableVars, reconcileVars, polarCallLog, syncVars, polar,
              lifecycleVars, maintenanceVars>>

NextBreaker ==
  \/ Tick /\ BreakerFrame
  \/ CallCheck /\ BreakerFrame
  \/ CallRecordSuccess /\ BreakerFrame
  \/ CallRecordFailure /\ BreakerFrame

SpecBreaker == Init /\ [][NextBreaker]_vars

\* C7: from a closed breaker, after 3 consecutive recordFailure() calls the
\* breaker is open with nextRetry = time of the last failure + 5 minutes;
\* checkCircuitBreaker() then returns false at every time before nextRetry and
\* true at or after it; and recordSuccess() leaves failures = 0, isOpen = false.
C7_BreakerTripReset ==
  /\ breakerLog.streak >= FailureThreshold =>
       /\ circuitBreaker.isOpen
       /\ circuitBreaker.nextRetry = toISOString(breakerLog.failedAt + CooldownMinutes)
  /\ (breakerLog.op = "check" /\ breakerLog.tripped) =>
       (breakerLog.result <=> breakerLog.at >= breakerLog.failedAt + CooldownMinutes)
  /\ breakerLog.op = "recordSuccess" =>
       (circuitBreaker.failures = 0 /\ ~circuitBreaker.isOpen)

\* The whole scenario has run: tripped, denied, allowed after the cooldown,
\* then recordSuccess.
C7_Witness ==
  /\ breakerLog.phase = 4
  /\ breakerLog.op = "recordSuccess"
  /\ circuitBreaker.failures = 0

\* ------------------------------------------------ reconcileBilling runs
\* Local tables as webhooks and pulls leave them: one processor customer and
\* one manually granted, one processor subscription and one manual one, and
\* possibly the active subscriptions whose processor state has drifted.
LocalCustomers ==
  << [polarCustomerId |-> "cus_1", email |-> "a@x.io", metadata |-> NoMetadata],
     [polarCustomerId |-> "manual_1", email |-> "m@x.io", metadata |-> NoMetadata] >>
LocalSubscription(polarId, customerId, status, cancel) ==
  [InsertedSubscription([polarSubscriptionId |-> polarId, customerId |-> customerId,
                         status |-> status, currentPeriodStart |-> PeriodStart,
                         currentPeriodEnd |-> PeriodEnd, metadata |-> NoMetadata])
     EXCEPT !.cancelAtPeriodEnd = cancel]
LocalSubscriptions(status, cancel) ==
  << LocalSubscription("sub_1", 1, status, cancel),
     LocalSubscription("manual_sub_1", 2, "active", FALSE) >>

DriftedSubscriptions ==
  [k \in 1..Len(DriftedIds) |-> LocalSubscription(DriftedIds[k], 1, "active", FALSE)]

InitReconcile ==
  /\ IdleWebhook
  /\ customers = LocalCustomers
  /\ \E more \in {<<>>, DriftedSubscriptions} :
       subscriptions = LocalSubscriptions("active", FALSE) \o more
  /\ IdleBreaker
  /\ IdleJobs

\* reconcileBilling runs while other jobs' failures are recorded on the
\* breaker it shares with them, and while pulls update the local rows.
\* What the pulls that run beside reconcileBilling write to sub_1: a status
\* that maps to active or to revoked.
PulledWhileReconciling == {p \in PolarSubscriptions : ~p.cancel_at_period_end}

\* reconcileBilling touches neither the dispatcher's state nor the sync job's.
ReconcileFrame ==
  UNCHANGED <<webhookVars, syncVars, polar, lifecycleVars, maintenanceVars>>

NextReconcile ==
  \/ \E t \in CheckTypes : ReconcileStart(t) /\ ReconcileFrame
  \/ ReconcileSkipManual /\ ReconcileFrame
  \/ \E a \in SubscriptionAnswers \cup CustomerAnswers \cup {Throws} :
       ReconcileCompare(a) /\ ReconcileFrame
  \/ ReconcileFinish /\ ReconcileFrame
  \/ CallRecordFailure /\ BreakerFrame
  \/ \E p \in PulledWhileReconciling : SyncSubscription(1, p) /\ DispatcherFrame

SpecReconcile == InitReconcile /\ [][NextReconcile]_vars

\* C8: no reconciliation operation calls the processor while the breaker is
\* open and nextRetry has not passed; every processor call of the
\* Reconciliation Engine follows a successful breaker check of the same run.
C8_BreakerGatesAll ==
  \A c \in polarCallLog : c.checked /\ ~c.whileOpen

\* The list a run builds holds a status_mismatch entry for every local
\* subscription it compared whose processor status differs from the local one.
ReconcileReports ==
  \A s \in reconcileRun.seen :
    s.polar # s.local =>
      \E k \in 1..Len(reconcileRun.discrepancies) :
        /\ reconcileRun.discrepancies[k].type = "status_mismatch"
        /\ reconcileRun.discrepancies[k].localId = s.localId

\* The result a run has returned holds such an entry for each of them.
ResultReports ==
  reconcileRun.pc = "idle" =>
    \A s \in reconcileRun.seen :
      s.polar # s.local =>
        \E k \in 1..Len(reconcileRun.result.discrepancies) :
          /\ reconcileRun.result.discrepancies[k].type = "status_mismatch"
          /\ reconcileRun.result.discrepancies[k].localId = s.localId

\* The result a run has returned counts the whole list and holds its first
\* ResultLimit entries; the auditLogs row it wrote holds the whole list.
ResultHoldsFirstEntries ==
  (reconcileRun.pc = "idle" /\ reconcileRun.checkType # "none") =>
    /\ reconcileRun.result.discrepanciesFound = Len(reconcileRun.discrepancies)
    /\ \A k \in 1..Len(reconcileRun.discrepancies) :
         k <= ResultLimit =>
           /\ k <= Len(reconcileRun.result.discrepancies)
           /\ reconcileRun.result.discrepancies[k] = reconcileRun.discrepancies[k]
    /\ Len(reconcileRun.discrepancies) > 0 =>
         \E r \in 1..Len(auditLogs) :
           auditLogs[r].discrepancies = reconcileRun.discrepancies

\* Every step of reconcileBilling leaves both tables as they are and at most
\* appends one auditLogs row.
ReconcileStepFrame ==
  reconcileRun' # reconcileRun =>
    /\ subscriptions' = subscriptions
    /\ customers' = customers
    /\ \/ auditLogs' = auditLogs
       \/ /\ Len(auditLogs') = Len(auditLogs) + 1
          /\ SubSeq(auditLogs', 1, Len(auditLogs)) = auditLogs

InitSync ==
  /\ IdleWebhook
  /\ customers = LocalCustomers
  /\ \E st \in {"active", "past_due"} : subscriptions = LocalSubscriptions(st, FALSE)
  /\ IdleBreaker
  /\ IdleJobs

\* The sync job touches neither the dispatcher's state nor reconcileBilling's.
SyncFrame ==
  UNCHANGED <<webhookVars, reconcileVars, polar, lifecycleVars, maintenanceVars>>

NextSync ==
  \/ SyncStart /\ SyncFrame
  \/ SyncGetCustomers /\ SyncFrame
  \/ SyncOuterThrows /\ SyncFrame
  \/ SyncSkipManual /\ SyncFrame
  \/ \E a \in {listSubscriptions(polar, TRUE), Throws} : SyncList(a) /\ SyncFrame
  \/ SyncItem /\ SyncFrame
  \/ SyncRecord /\ SyncFrame
  \/ SyncRecordFailed /\ SyncFrame
  \/ Tick /\ BreakerFrame
  \/ \E st \in ProcessorStatuses :
       ProcessorChanges([polar EXCEPT !.status = st])
         /\ UNCHANGED <<webhookVars, reconcileVars, lifecycleVars, maintenanceVars>>

SpecSync == InitSync /\ [][NextSync]_vars

(* The synchronisation run alone, the processor's subscription left as it is:
   the handler's steps and the clock, for the properties of its two catch
   blocks, which do not depend on what the processor answers for a status. *)
NextSyncFailures ==
  \/ SyncStart /\ SyncFrame
  \/ SyncGetCustomers /\ SyncFrame
  \/ SyncOuterThrows /\ SyncFrame
  \/ SyncSkipManual /\ SyncFrame
  \/ \E a \in {listSubscriptions(polar, TRUE), Throws} : SyncList(a) /\ SyncFrame
  \/ SyncItem /\ SyncFrame
  \/ SyncRecord /\ SyncFrame
  \/ SyncRecordFailed /\ SyncFrame
  \/ Tick /\ BreakerFrame

SpecSyncFailures == InitSync /\ [][NextSyncFailures]_vars

\* C9: once every processor call has failed during three consecutive
\* subscription-sync runs, the breaker is open (until the cooldown that began
\* with the last of these runs has elapsed), and no sync run calls the
\* processor before then.
C9_BreakerSuspendsAfterFailures ==
  /\ SuspensionDue(syncLog, now) => BreakerDenies(circuitBreaker, now)
  /\ ~syncLog.calledAfter

\* C11: once a subscription-sync run has completed with no failure, having
\* begun after the processor last changed the subscription (no notification
\* of the change was delivered), the local row's status is the mapped status
\* the processor holds.
C11_MirrorConverges ==
  syncLog.clean =>
    \A i \in 1..Len(subscriptions) :
      subscriptions[i].polarSubscriptionId = polar.id =>
        subscriptions[i].status = syncSubscriptionStatus(polar.status)

\* ------------------------------------------- the status maps on their own
\* How many calls of the status maps are recorded.
MaxStatusCalls == 2

\* Strings a status field can carry: the map's keys, revoked, the empty
\* string, strings that are no property of the map, and names that
\* Object.prototype defines.
StatusStrings ==
  StatusMapKeys \cup {"revoked", "", "paused", "ACTIVE"} \cup ObjectPrototypeKeys

\* A call of one of the three maps on string s, recorded with what it returned.
StatusCall(fn, s, result) ==
  /\ Len(statusCalls) < MaxStatusCalls
  /\ statusCalls' = Append(statusCalls, [fn |-> fn, input |-> s, result |-> result])

CallMapPolarStatus(s) == StatusCall("mapPolarStatus", s, mapPolarStatus(s))
CallWebhookStatus(s) ==
  StatusCall("updateSubscriptionFromWebhook", s, webhookStatus(s))
CallSyncSubscriptionStatus(s) ==
  StatusCall("syncSubscription", s, syncSubscriptionStatus(s))

\* The maps are pure: a call touches no table and no job.
StatusMapFrame ==
  UNCHANGED <<webhookVars, tableVars, breakerVars, reconcileVars, polarCallLog,
              syncVars, polar, lastOp, cancelRun, maintenanceVars>>

NextStatusMap ==
  \/ \E s \in StatusStrings : CallMapPolarStatus(s) /\ StatusMapFrame
  \/ \E s \in StatusStrings : CallWebhookStatus(s) /\ StatusMapFrame
  \/ \E s \in StatusStrings : CallSyncSubscriptionStatus(s) /\ StatusMapFrame

SpecStatusMap == Init /\ [][NextStatusMap]_vars

\* C12: for every string s, each of the three status maps returns one of the
\* eight subscription states: s itself when s is one of incomplete,
\* incomplete_expired, trialing, active, past_due, canceled, unpaid, and
\* revoked for every other string.
C12_StatusMappingTotal ==
  \A k \in 1..Len(statusCalls) :
    /\ statusCalls[k].result \in SubscriptionStates
    /\ statusCalls[k].result =
         (IF statusCalls[k].input \in StatusMapKeys
            THEN statusCalls[k].input ELSE "revoked")

\* --------------------------------------- subscription and customer lifecycle
\* How many lifecycle operations run.
MaxOps == 2

\* The subscription sub_1 of customer cus_1, active, both rows holding
\* metadata {b: 2}.
OldMetadata == {<<"b", 2>>}
InitLifecycle ==
  /\ IdleWebhook
  /\ customers = << [polarCustomerId |-> "cus_1", email |-> "a@x.io",
                     metadata |-> OldMetadata] >>
  /\ subscriptions =
       << [LocalSubscription("sub_1", 1, "active", FALSE) EXCEPT
             !.metadata = OldMetadata] >>
  /\ IdleBreaker
  /\ IdleJobs

\* What the notifications carry: the id of a subscription that exists
\* locally or of one that does not, metadata {} or {a: 1} (an update also
\* {b: 3}), and the times the processor stamps.
NotifiedIds == {"sub_1", "sub_2"}
Metadatas == {NoMetadata, {<<"a", 1>>}}
ProcessorTime == toISOString(MaxTime + 1)
SubscriptionData(statuses, cancels, canceledAts, endedAts, metadatas) ==
  [id : NotifiedIds, customer_id : {"cus_1"}, status : statuses,
   current_period_start : {PeriodStart}, current_period_end : {PeriodEnd},
   cancel_at_period_end : cancels, canceled_at : canceledAts,
   ended_at : endedAts, metadata : metadatas]
\* subscription.updated: a renewal that failed, scheduled for cancellation or not.
UpdatedData ==
  SubscriptionData({"past_due"}, BOOLEAN, {Undefined}, {Undefined},
                   Metadatas \cup {{<<"b", 3>>}})
\* subscription.active
ActiveData ==
  SubscriptionData({"active"}, {FALSE}, {Undefined}, {Undefined}, {NoMetadata})
\* subscription.canceled: at period end (the processor still holds the
\* subscription as active) or at once, with or without the processor's time
\* of cancellation.
CanceledData ==
  {d \in SubscriptionData({"active", "canceled"}, BOOLEAN,
                          {Undefined, ProcessorTime}, {Undefined}, {NoMetadata}) :
     d.status = IF d.cancel_at_period_end THEN "active" ELSE "canceled"}
\* subscription.revoked, with or without the processor's time of ending.
RevokedData ==
  SubscriptionData({"revoked"}, {FALSE}, {ProcessorTime}, {Undefined, ProcessorTime},
                   {NoMetadata})
\* subscription.created
CreatedData ==
  SubscriptionData({"active"}, {FALSE}, {Undefined}, {Undefined}, Metadatas)

\* The record of an operation: its name, what it was given, the time, the
\* tables as they were before it, and whether its mutation committed.
Op(name, payload, applied) ==
  [op |-> name, n |-> lastOp.n + 1, payload |-> payload, at |-> now,
   applied |-> applied, before |-> subscriptions, customersBefore |-> customers]

\* A subscription notification handled by updateSubscriptionFromWebhook.
HandleWith(name, subscriptionData, updates) ==
  /\ lastOp.n < MaxOps
  /\ IF updateSubscriptionFromWebhookThrows(subscriptions, subscriptionData.id, updates)
       THEN /\ lastOp' = Op(name, subscriptionData, FALSE)
            /\ UNCHANGED subscriptions
       ELSE /\ lastOp' = Op(name, subscriptionData, TRUE)
            /\ subscriptions' = updateSubscriptionFromWebhook(
                  subscriptions, subscriptionData.id, updates)
  /\ UNCHANGED <<customers, auditLogs, cancelRun, polar>>

HandleSubscriptionUpdated(subscriptionData) ==
  HandleWith("subscription.updated", subscriptionData,
             handleSubscriptionUpdated(subscriptionData))
HandleSubscriptionActive(subscriptionData) ==
  HandleWith("subscription.active", subscriptionData,
             handleSubscriptionActive(subscriptionData))
HandleSubscriptionCanceled(subscriptionData) ==
  HandleWith("subscription.canceled", subscriptionData,
             handleSubscriptionCanceled(subscriptionData, now))
HandleSubscriptionRevoked(subscriptionData) ==
  HandleWith("subscription.revoked", subscriptionData,
             handleSubscriptionRevoked(subscriptionData, now))

\* handleSubscriptionCreated for a customer that exists: createSubscription.
HandleSubscriptionCreated(subscriptionData) ==
  /\ lastOp.n < MaxOps
  /\ LET c == getCustomerByPolarId(customers, subscriptionData.customer_id)
         args == [customerId |-> c,
                  polarSubscriptionId |-> subscriptionData.id,
                  status |-> mapPolarStatus(subscriptionData.status),
                  currentPeriodStart |-> subscriptionData.current_period_start,
                  currentPeriodEnd |-> subscriptionData.current_period_end,
                  metadata |-> subscriptionData.metadata]
     IN  /\ c # 0
         /\ IF createSubscriptionThrows(subscriptions, customers, args)
              THEN /\ lastOp' = Op("subscription.created", subscriptionData, FALSE)
                   /\ UNCHANGED subscriptions
              ELSE /\ lastOp' = Op("subscription.created", subscriptionData, TRUE)
                   /\ subscriptions' = createSubscription(subscriptions, customers, args)
  /\ UNCHANGED <<customers, auditLogs, cancelRun, polar>>

\* The customer notifications' data.
CustomerData == [id : {"cus_1"}, email : {"b@x.io"}, metadata : Metadatas]

\* handleCustomerCreated: createCustomerFromWebhook.
HandleCustomerCreated(customerData) ==
  /\ lastOp.n < MaxOps
  /\ customers' = createCustomerFromWebhook(customers, customerData)
  /\ lastOp' = Op("customer.created", customerData, TRUE)
  /\ UNCHANGED <<subscriptions, auditLogs, cancelRun, polar>>

\* handleCustomerUpdated: getCustomerByPolarId, then updateCustomerFromPolar
\* when the customer exists (customers are never deleted, so the row the
\* query found is the row the mutation patches).
HandleCustomerUpdated(customerData) ==
  /\ lastOp.n < MaxOps
  /\ LET c == getCustomerByPolarId(customers, customerData.id)
     IN  customers' = IF c # 0 THEN updateCustomerFromPolar(customers, c, customerData)
                               ELSE customers
  /\ lastOp' = Op("customer.updated", customerData, TRUE)
  /\ UNCHANGED <<subscriptions, auditLogs, cancelRun, polar>>

\* What cancelSubscription is called with.
CancelRequests ==
  [subscriptionId : {1}, cancelAtPeriodEnd : {Undefined, Some(TRUE), Some(FALSE)},
   reason : {7}, feedback : {8}]
\* cancelSubscription with polarApi.subscriptions.cancel called before the
\* ownership check.
CancelSubscriptionCall_CallFirst(args, owner, callThrows) ==
  /\ lastOp.n < MaxOps
  /\ cancelRun.pc = "idle"
  /\ args.subscriptionId \in 1..Len(subscriptions)
  /\ polar' = IF callThrows THEN polar ELSE polarCancel(polar, args.cancelAtPeriodEnd)
  /\ cancelRun' =
       IF owner /\ ~callThrows
         THEN [pc |-> "update", args |-> args,
               polarSubscription |-> polarCancel(polar, args.cancelAtPeriodEnd),
               owner |-> TRUE, called |-> TRUE, callThrew |-> FALSE]
         ELSE [pc |-> "threw", owner |-> owner, called |-> TRUE,
               callThrew |-> callThrows]
  /\ UNCHANGED <<customers, subscriptions, auditLogs, lastOp>>
\* cancelSubscription up to the processor's answer: getSubscriptionById, the
\* ownership check, polarApi.subscriptions.cancel.  It throws when the caller
\* does not own the subscription or the processor call fails.
CancelSubscriptionCall(args, owner, callThrows) ==
  /\ lastOp.n < MaxOps
  /\ cancelRun.pc = "idle"
  /\ args.subscriptionId \in 1..Len(subscriptions)
  /\ IF owner /\ ~callThrows
       THEN /\ polar' = polarCancel(polar, args.cancelAtPeriodEnd)
            /\ cancelRun' = [pc |-> "update", args |-> args,
                             polarSubscription |-> polarCancel(polar, args.cancelAtPeriodEnd),
                             owner |-> TRUE, called |-> TRUE, callThrew |-> FALSE]
       ELSE /\ cancelRun' = [pc |-> "threw", owner |-> owner, called |-> owner,
                             callThrew |-> owner /\ callThrows]
            /\ UNCHANGED polar
  /\ UNCHANGED <<customers, subscriptions, auditLogs, lastOp>>

\* cancelSubscription: runMutation(updateSubscription, ...) and the return.
CancelSubscriptionUpdate ==
  /\ cancelRun.pc = "update"
  /\ subscriptions' = updateSubscription(
        subscriptions, cancelRun.args.subscriptionId,
        cancelSubscriptionArgs(cancelRun.polarSubscription, cancelRun.args.reason,
                               cancelRun.args.feedback, now))
  /\ lastOp' = Op("cancelSubscription",
                  [cancelRun.args EXCEPT !.cancelAtPeriodEnd =
                     Some(cancelRun.polarSubscription.cancel_at_period_end)], TRUE)
  /\ cancelRun' = IdleCancel
  /\ UNCHANGED <<customers, auditLogs, polar>>

\* cancelSubscription has thrown; the caller may call again.
CancelSubscriptionThrew ==
  /\ cancelRun.pc = "threw"
  /\ cancelRun' = IdleCancel
  /\ UNCHANGED <<customers, subscriptions, auditLogs, lastOp, polar>>

\* adminTools.revokeSubscription, called by an admin (requireAdmin throws for
\* anyone else, and nothing is written).
RevokeSubscription(subscriptionId, reason, immediate, admin) ==
  /\ lastOp.n < MaxOps
  /\ subscriptionId \in 1..Len(subscriptions)
  /\ IF admin
       THEN /\ subscriptions' = revokeSubscription(
                  subscriptions, subscriptionId, reason, immediate, 5, now)
            /\ auditLogs' = revokeAuditLog(auditLogs, subscriptionId, reason, immediate)
       ELSE UNCHANGED <<subscriptions, auditLogs>>
  /\ lastOp' = Op("revokeSubscription",
                  [subscriptionId |-> subscriptionId, reason |-> reason,
                   immediate |-> immediate], admin)
  /\ UNCHANGED <<customers, cancelRun, polar>>

\* The lifecycle operations touch neither the dispatcher's event store nor
\* the breaker nor the jobs.
LifecycleFrame ==
  UNCHANGED <<webhookVars, breakerVars, reconcileRun, polarCallLog, syncVars,
              statusCalls, maintenanceVars>>

\* Between two operations the clock advances by at most a minute, which is
\* enough to tell apart the times they stamp.
NextLifecycle ==
  \/ \E d \in UpdatedData : HandleSubscriptionUpdated(d) /\ LifecycleFrame
  \/ \E d \in ActiveData : HandleSubscriptionActive(d) /\ LifecycleFrame
  \/ \E d \in CanceledData : HandleSubscriptionCanceled(d) /\ LifecycleFrame
  \/ \E d \in RevokedData : HandleSubscriptionRevoked(d) /\ LifecycleFrame
  \/ \E d \in CreatedData : HandleSubscriptionCreated(d) /\ LifecycleFrame
  \/ \E d \in CustomerData : HandleCustomerCreated(d) /\ LifecycleFrame
  \/ \E d \in CustomerData : HandleCustomerUpdated(d) /\ LifecycleFrame
  \/ \E a \in CancelRequests, owner \in BOOLEAN, callThrows \in BOOLEAN :
       CancelSubscriptionCall(a, owner, callThrows) /\ LifecycleFrame
  \/ CancelSubscriptionUpdate /\ LifecycleFrame
  \/ CancelSubscriptionThrew /\ LifecycleFrame
  \/ \E immediate \in BOOLEAN, admin \in BOOLEAN :
       RevokeSubscription(1, 9, immediate, admin) /\ LifecycleFrame
  \/ Tick /\ now <= lastOp.n /\ BreakerFrame

SpecLifecycle == InitLifecycle /\ [][NextLifecycle]_vars

\* The row an operation named, as an index into the table it found: by
\* external id for a notification, by document id for a call; 0 when the
\* table had no such row.
OpRow(op) ==
  IF op.op \in {"cancelSubscription", "revokeSubscription"}
    THEN op.payload.subscriptionId
    ELSE getSubscriptionByPolarId(op.before, op.payload.id)

\* C13: applying the same subscription.updated payload again through
\* updateSubscriptionFromWebhook leaves the subscriptions table (status,
\* period, cancelAtPeriodEnd, canceledAt, endedAt, metadata of every row) as
\* the first application left it; by induction, N applications equal one.
C13_UpsertConverges ==
  [][ ( /\ lastOp.op = "subscription.updated"
        /\ lastOp.applied
        /\ lastOp'.op = "subscription.updated"
        /\ lastOp'.n = lastOp.n + 1
        /\ lastOp'.payload = lastOp.payload )
      => subscriptions' = subscriptions ]_vars

\* The payload {status: past_due, cancel_at_period_end: true, metadata:
\* {a: 1}} for sub_1 has been applied to the row the first application of
\* it left ({a: 1, b: 2}, past_due, cancelling), and the row is the same.
C13_Witness ==
  /\ lastOp.op = "subscription.updated"
  /\ lastOp.n = 2
  /\ lastOp.applied
  /\ lastOp.payload.id = "sub_1"
  /\ lastOp.payload.cancel_at_period_end
  /\ lastOp.payload.metadata = {<<"a", 1>>}
  /\ lastOp.before[1].status = "past_due"
  /\ lastOp.before[1].cancelAtPeriodEnd
  /\ lastOp.before[1].metadata = {<<"a", 1>>, <<"b", 2>>}
  /\ subscriptions = lastOp.before

\* The metadata M a subscription mutator was given.
MetadataGiven(op) ==
  IF op.op = "cancelSubscription"
    THEN {<<"cancellationReason", op.payload.reason>>,
          <<"cancellationFeedback", op.payload.feedback>>}
    ELSE op.payload.metadata

ScheduledCancellation(op) ==
  \/ op.op = "subscription.canceled" /\ op.payload.cancel_at_period_end
  \/ op.op = "cancelSubscription" /\ op.payload.cancelAtPeriodEnd = Some(TRUE)

\* C16: a cancellation at period end of an active subscription leaves its
\* status active, with cancelAtPeriodEnd = true, whether it arrives as a
\* subscription.canceled notification or as a cancelSubscription call.
C16_ScheduledCancelKeepsActive ==
  ( /\ ScheduledCancellation(lastOp)
    /\ lastOp.applied
    /\ OpRow(lastOp) # 0
    /\ lastOp.before[OpRow(lastOp)].status = "active" )
  => /\ subscriptions[OpRow(lastOp)].status = "active"
     /\ subscriptions[OpRow(lastOp)].cancelAtPeriodEnd

\* C17: after a subscription.canceled notification is processed, the
\* subscription with that external id has status canceled and canceledAt set
\* to the notification's canceled_at, or to the processing time when it
\* carries none; when no subscription has that id the table is as it was.
C17_CanceledNotification ==
  (lastOp.op = "subscription.canceled" /\ lastOp.applied)
  => IF OpRow(lastOp) # 0
       THEN /\ subscriptions[OpRow(lastOp)].status = "canceled"
            /\ subscriptions[OpRow(lastOp)].canceledAt =
                 (IF lastOp.payload.canceled_at # Undefined
                    THEN lastOp.payload.canceled_at ELSE toISOString(lastOp.at))
            /\ subscriptions[OpRow(lastOp)].canceledAt # Undefined
       ELSE subscriptions = lastOp.before

\* A subscription.canceled notification without canceled_at has been
\* processed at minute 1 for sub_1, which was active and had no canceledAt.
C17_Witness ==
  /\ lastOp.op = "subscription.canceled"
  /\ lastOp.applied
  /\ lastOp.payload.id = "sub_1"
  /\ lastOp.payload.canceled_at = Undefined
  /\ lastOp.at = 1
  /\ lastOp.before[1].status = "active"
  /\ lastOp.before[1].canceledAt = Undefined
  /\ subscriptions[1].status = "canceled"
  /\ subscriptions[1].canceledAt = toISOString(1)

\* A cancellation that is not at period end.
ImmediateCancellation(op) ==
  \/ op.op = "revokeSubscription" /\ op.payload.immediate
  \/ op.op = "cancelSubscription" /\ op.payload.cancelAtPeriodEnd = Some(FALSE)
  \/ op.op = "subscription.revoked"

\* C18: an immediate cancellation (revokeSubscription with immediate = true,
\* cancelSubscription with cancelAtPeriodEnd = false, the
\* subscription.revoked notification) sets the status to canceled or revoked
\* and endedAt to the time of the cancellation.
C18_ImmediateCancelEnds ==
  ( /\ ImmediateCancellation(lastOp)
    /\ lastOp.applied
    /\ OpRow(lastOp) # 0 )
  => /\ subscriptions[OpRow(lastOp)].status \in {"canceled", "revoked"}
     /\ subscriptions[OpRow(lastOp)].endedAt =
          (IF lastOp.op = "subscription.revoked" /\ lastOp.payload.ended_at # Undefined
             THEN lastOp.payload.ended_at ELSE toISOString(lastOp.at))

\* ------------------------------------------- outcomes of the dispatcher
\* The event types the dispatcher's switch has a case for.
HandledEventTypes ==
  {"customer.created", "customer.updated", "subscription.created",
   "subscription.updated", "subscription.active", "subscription.canceled",
   "subscription.revoked", "checkout.created", "checkout.updated",
   "order.created", "invoice.created", "invoice.paid",
   "payment_method.attached", "payment_method.detached"}

\* An execution of the dispatcher on a notification of a type its switch
\* does not know, which found no stored row and stored one.
UnknownTypeDelivery(d) ==
  /\ Authentic(d)
  /\ d.request.body.type \notin HandledEventTypes
  /\ d.stored

\* The stored row of an event (the one the idempotency check reads).
EventRow(events, eventId) == events[getWebhookEventById(events, eventId)]

FirstDelivery(d) == Authentic(d) /\ d.stored

\* What a first delivery's answer says about the stored outcome.
OutcomeMatches(d, events) ==
  LET row == EventRow(events, EventIdOf(d.request))
  IN  /\ d.status = 200 => row.processingResult = "success"
      /\ d.threw => /\ row.processingResult = "error"
                    /\ row.error # ""
                    /\ d.status = 500

SignedRequests ==
  {r \in Requests : r.handler = "webhooks" /\ webhooks_Reject(r) = 0}

NextOutcome ==
  \/ \E r \in SignedRequests : Arrive(r) /\ DispatcherFrame
  \/ \E i \in 1..Len(deliveries) : StoreEvent(i) /\ DispatcherFrame
  \/ \E i \in 1..Len(deliveries) : Dispatch(i) /\ DispatcherFrame
  \/ \E i \in 1..Len(deliveries) : MutatorThrows(i) /\ DispatcherFrame
  \/ \E i \in 1..Len(deliveries) : CreateCustomer(i) /\ DispatcherFrame
  \/ \E i \in 1..Len(deliveries) : CreateSubscription(i) /\ DispatcherFrame
  \/ \E i \in 1..Len(deliveries) : MarkSuccess(i) /\ DispatcherFrame
  \/ \E i \in 1..Len(deliveries) : MarkSuccessThrows(i) /\ DispatcherFrame
  \/ \E i \in 1..Len(deliveries) : MarkError(i) /\ DispatcherFrame
  \/ \E i \in 1..Len(deliveries) : MarkErrorThrows(i) /\ DispatcherFrame

SpecOutcome == Init /\ [][NextOutcome]_vars

\* C21: every execution of the dispatcher that stored an event has called
\* markWebhookEventProcessed exactly once by the time it answers, also when
\* recording the success outcome fails.
C21_OutcomeRecordedOnce ==
  \A i \in 1..Len(deliveries) :
    (FirstDelivery(deliveries[i]) /\ deliveries[i].pc = "done")
      => deliveries[i].marks = 1

\* C22: a request whose signature verifies but whose body is not valid JSON
\* is answered with 400, stores no event and enters no domain mutator.
C22_MalformedPayload400 ==
  \A i \in 1..Len(deliveries) :
    ( /\ deliveries[i].pc = "done"
      /\ ~deliveries[i].request.body.json
      /\ deliveries[i].request.signature # NoSignature
      /\ verifyWebhookSignature(deliveries[i].request.body,
                                deliveries[i].request.signature, WebhookSecret) )
    => /\ deliveries[i].status = 400
       /\ ~deliveries[i].stored
       /\ ~deliveries[i].enteredMutator

\* ---------------------------------------------------- syncPendingInvoices
MaxJobRuns == 1

\* Rows of table invoices.
Invoice(id, status) == [polarInvoiceId |-> id, status |-> status, paidAt |-> Undefined]
LocalInvoices ==
  << Invoice("in_1", "pending"), Invoice("manual_in_1", "pending"),
     Invoice("in_2", "paid") >>

\* getPendingInvoices: the positions of the rows whose status is pending.
RECURSIVE PendingFrom(_, _)
PendingFrom(rows, k) ==
  IF k > Len(rows) THEN <<>>
  ELSE IF rows[k].status = "pending" THEN <<k>> \o PendingFrom(rows, k + 1)
  ELSE PendingFrom(rows, k + 1)
getPendingInvoices(rows) == PendingFrom(rows, 1)

\* updateInvoiceStatus: patches status and paidAt of one row.
updateInvoiceStatus(rows, k, status, paidAt) ==
  [rows EXCEPT ![k].status = status, ![k].paidAt = paidAt]

\* What polarApi.orders.get answers: an order, JSON null, or it throws.
OrderAnswers == {[throws |-> FALSE, order |-> TRUE], [throws |-> FALSE, order |-> FALSE], Throws}

\* The handler up to its first await: the breaker check, and the skipped
\* result when it answers false.
InvoiceStart ==
  /\ invoiceRun.pc = "idle"
  /\ invoiceRun.runs < MaxJobRuns
  /\ LET r == checkCircuitBreaker(circuitBreaker, now)
     IN  /\ circuitBreaker' = r.cb
         /\ breakerLog' = LogCheck(breakerLog, r, now)
         /\ invoiceRun' =
              IF r.ok
                THEN [IdleInvoiceSync EXCEPT !.pc = "query", !.runs = invoiceRun.runs + 1]
                ELSE [IdleInvoiceSync EXCEPT !.runs = invoiceRun.runs + 1,
                                             !.result = "skipped"]
  /\ UNCHANGED <<now, invoices, polarCallLog>>

\* runQuery(getPendingInvoices) answers.
InvoiceQuery ==
  /\ invoiceRun.pc = "query"
  /\ invoiceRun' = [invoiceRun EXCEPT !.pc = "loop",
                                      !.local = getPendingInvoices(invoices), !.idx = 1]
  /\ UNCHANGED <<breakerVars, invoices, polarCallLog>>

\* runQuery(getPendingInvoices) throws: the outer catch.
InvoiceOuterThrows ==
  /\ invoiceRun.pc = "query"
  /\ circuitBreaker' = recordFailure(circuitBreaker, now)
  /\ breakerLog' = LogFailure(breakerLog, now)
  /\ invoiceRun' = [invoiceRun EXCEPT !.pc = "idle", !.result = "threw"]
  /\ UNCHANGED <<now, invoices, polarCallLog>>

\* A loop iteration for a manual_ invoice: no call.
InvoiceSkipManual ==
  /\ invoiceRun.pc = "loop"
  /\ invoiceRun.idx <= Len(invoiceRun.local)
  /\ startsWithManual(invoices[invoiceRun.local[invoiceRun.idx]].polarInvoiceId)
  /\ invoiceRun' = [invoiceRun EXCEPT !.idx = @ + 1]
  /\ UNCHANGED <<breakerVars, invoices, polarCallLog>>

\* polarApi.orders.get answers or throws; an order leads to the mutation.
InvoiceGet(answer) ==
  /\ invoiceRun.pc = "loop"
  /\ invoiceRun.idx <= Len(invoiceRun.local)
  /\ ~startsWithManual(invoices[invoiceRun.local[invoiceRun.idx]].polarInvoiceId)
  /\ polarCallLog' = polarCallLog \cup {PolarCall("syncPendingInvoices", TRUE)}
  /\ invoiceRun' =
       IF answer.throws THEN [invoiceRun EXCEPT !.idx = @ + 1, !.failed = @ + 1]
       ELSE IF answer.order THEN [invoiceRun EXCEPT !.pc = "update"]
       ELSE [invoiceRun EXCEPT !.idx = @ + 1]
  /\ UNCHANGED <<breakerVars, invoices>>

\* runMutation(updateInvoiceStatus) commits, or throws into the inner catch.
InvoiceUpdate(throws) ==
  /\ invoiceRun.pc = "update"
  /\ IF throws
       THEN /\ invoiceRun' = [invoiceRun EXCEPT !.pc = "loop", !.idx = @ + 1,
                                                !.failed = @ + 1]
            /\ UNCHANGED invoices
       ELSE /\ invoices' = updateInvoiceStatus(invoices, invoiceRun.local[invoiceRun.idx],
                                               "paid", toISOString(now))
            /\ invoiceRun' = [invoiceRun EXCEPT !.pc = "loop", !.idx = @ + 1,
                                                !.updated = @ + 1]
  /\ UNCHANGED <<breakerVars, polarCallLog>>

\* After the loop: recordSuccess() and the completed result.
InvoiceFinish ==
  /\ invoiceRun.pc = "loop"
  /\ invoiceRun.idx > Len(invoiceRun.local)
  /\ circuitBreaker' = recordSuccess(circuitBreaker)
  /\ breakerLog' = LogSuccess(breakerLog, now)
  /\ invoiceRun' = [invoiceRun EXCEPT !.pc = "idle", !.result = "completed"]
  /\ UNCHANGED <<now, invoices, polarCallLog>>

\* -------------------------------------------- the jobs sharing the breaker
InitJobs ==
  /\ IdleWebhook
  /\ customers = LocalCustomers
  /\ subscriptions = LocalSubscriptions("active", FALSE)
  /\ IdleBreaker
  /\ reconcileRun = IdleReconcile
  /\ auditLogs = <<>>
  /\ polarCallLog = {}
  /\ syncRun = IdleSync
  /\ billingSettings = <<>>
  /\ syncLog = NoSyncRuns
  /\ polar = PolarInitially
  /\ statusCalls = <<>>
  /\ lastOp = NoOp
  /\ cancelRun = IdleCancel
  /\ invoices = LocalInvoices
  /\ usageEvents = <<>>
  /\ cleanupRun = IdleCleanup
  /\ usageRun = IdleUsage
  /\ httpCall = NoHttpCall
  /\ IdleCallers
  /\ invoiceRun = IdleInvoiceSync

\* The subscription sync leaves the invoices alone, and the invoice sync the
\* subscriptions.
InvoiceJobFrame ==
  UNCHANGED <<webhookVars, tableVars, reconcileVars, syncVars, polar, lifecycleVars,
              usageEvents, cleanupRun, usageRun, httpCall, callerVars>>

\* The cooldown elapses.
CooldownElapses ==
  /\ now + CooldownMinutes <= MaxTime
  /\ now' = now + CooldownMinutes
  /\ UNCHANGED <<circuitBreaker, breakerLog>>

NextJobs ==
  \/ syncLog.runs < MaxJobRuns /\ SyncStart /\ SyncFrame
  \/ SyncGetCustomers /\ SyncFrame
  \/ SyncOuterThrows /\ SyncFrame
  \/ SyncSkipManual /\ SyncFrame
  \/ \E a \in {listSubscriptions(polar, TRUE), Throws} : SyncList(a) /\ SyncFrame
  \/ SyncItem /\ SyncFrame
  \/ SyncRecord /\ SyncFrame
  \/ SyncRecordFailed /\ SyncFrame
  \/ InvoiceStart /\ InvoiceJobFrame
  \/ InvoiceQuery /\ InvoiceJobFrame
  \/ InvoiceOuterThrows /\ InvoiceJobFrame
  \/ InvoiceSkipManual /\ InvoiceJobFrame
  \/ \E a \in OrderAnswers : InvoiceGet(a) /\ InvoiceJobFrame
  \/ \E throws \in BOOLEAN : InvoiceUpdate(throws) /\ InvoiceJobFrame
  \/ InvoiceFinish /\ InvoiceJobFrame
  \/ CooldownElapses /\ BreakerFrame
  \/ CallRecordFailure /\ BreakerFrame

SpecJobs == InitJobs /\ [][NextJobs]_vars

\* A step in which a run of the job begins, and whether that run ended there
\* with the skipped result.
SyncRunBegins == syncLog'.runs = syncLog.runs + 1
SyncRunSkipped == syncRun'.pc = "idle" /\ syncLog'.outcome = "skipped"
InvoiceRunBegins == invoiceRun'.runs = invoiceRun.runs + 1
InvoiceRunSkipped == invoiceRun'.result = "skipped"

\* What a skipped run must leave alone: the call log, the store, the breaker.
SkippedRunFrame ==
  UNCHANGED <<polarCallLog, tableVars, billingSettings, auditLogs, invoices,
              circuitBreaker>>

\* C23: a run of syncAllSubscriptions or syncPendingInvoices ends with status
\* skipped if and only if the breaker denied the attempt (it was open and
\* nextRetry had not passed when the run began), and such a run makes no
\* processor call, writes nothing to the store and leaves the breaker as it
\* was; no later step of a run turns its result into skipped.
C23_SkippedMeansDenied ==
  [][ /\ SyncRunBegins =>
          /\ SyncRunSkipped <=> BreakerDenies(circuitBreaker, now)
          /\ SyncRunSkipped => SkippedRunFrame
      /\ InvoiceRunBegins =>
          /\ InvoiceRunSkipped <=> BreakerDenies(circuitBreaker, now)
          /\ InvoiceRunSkipped => SkippedRunFrame
      /\ (~SyncRunBegins /\ syncLog'.outcome = "skipped")
            => syncLog.outcome = "skipped"
      /\ (~InvoiceRunBegins /\ invoiceRun'.result = "skipped")
            => invoiceRun.result = "skipped" ]_vars

\* Both jobs have been skipped while the breaker was open with failures
\* counted, and the invoice that was pending is still pending.
C23_Witness ==
  /\ syncLog.outcome = "skipped"
  /\ syncRun.pc = "idle"
  /\ invoiceRun.result = "skipped"
  /\ BreakerDenies(circuitBreaker, now)
  /\ circuitBreaker.failures >= FailureThreshold
  /\ polarCallLog = {}
  /\ invoices = LocalInvoices

\* ------------------------------------------------------ cleanupOldRecords
DefaultDaysToKeep == 90
QueryLimit == 100
\* The day on which the cleanup runs.
CleanupDay == 95

\* .filter(...), .take(n) and ctx.db.delete(id) on a table whose rows carry
\* their id.
Take(rows, n) == SubSeq(rows, 1, IF Len(rows) < n THEN Len(rows) ELSE n)
DbDelete(rows, id) == LET Other(r) == r.id # id IN SelectSeq(rows, Other)

\* getOldWebhookEvents without the age filter.
getOldWebhookEvents_AnyAge(rows, cutoff) == Take(rows, QueryLimit)

\* getOldWebhookEvents, getOldUsageEvents, getOldAuditLogs.
getOldWebhookEvents(rows, cutoff) ==
  LET Old(r) == StringLess(r.receivedAt, cutoff) IN Take(SelectSeq(rows, Old), QueryLimit)
getOldUsageEvents(rows, cutoff) ==
  LET Old(r) == StringLess(r.createdAt, cutoff) IN Take(SelectSeq(rows, Old), QueryLimit)
getOldAuditLogs(rows, cutoff) ==
  LET Old(r) == StringLess(r.createdAt, cutoff) IN Take(SelectSeq(rows, Old), QueryLimit)

\* resetWebhookEvent (the first mutation of the admin action retryWebhook).
resetWebhookEvent(rows, id) ==
  [k \in 1..Len(rows) |->
     IF rows[k].id = id
       THEN [rows[k] EXCEPT !.processingResult = "none", !.error = "", !.attempts = 0]
       ELSE rows[k]]

\* args.daysToKeep || 90, and the cutoff it gives on day t.
DaysToKeepArgs == {Undefined, Some(0), Some(1), Some(91)}
CutoffFor(daysToKeep, t) ==
  LET days == IF daysToKeep = Undefined THEN DefaultDaysToKeep
              ELSE IF daysToKeep[1] = 0 THEN DefaultDaysToKeep
              ELSE daysToKeep[1]
  IN  toISOString(t - days)

\* The handler up to its first await.
CleanupStart(daysToKeep) ==
  /\ cleanupRun.pc = "idle"
  /\ cleanupRun.runs < MaxJobRuns
  /\ cleanupRun' = [IdleCleanup EXCEPT !.pc = "queryWebhooks",
                                       !.cutoff = CutoffFor(daysToKeep, now),
                                       !.runs = cleanupRun.runs + 1]
  /\ UNCHANGED <<webhookEvents, usageEvents, auditLogs>>

\* runQuery(getOldWebhookEvents), getOldUsageEvents, getOldAuditLogs answer.
CleanupQuery ==
  /\ cleanupRun.pc \in {"queryWebhooks", "queryUsage", "queryAudit"}
  /\ cleanupRun' =
       [cleanupRun EXCEPT
          !.pc = CASE @ = "queryWebhooks" -> "webhooks"
                   [] @ = "queryUsage" -> "usage"
                   [] OTHER -> "audit",
          !.local = CASE cleanupRun.pc = "queryWebhooks"
                           -> getOldWebhookEvents(webhookEvents, cleanupRun.cutoff)
                      [] cleanupRun.pc = "queryUsage"
                           -> getOldUsageEvents(usageEvents, cleanupRun.cutoff)
                      [] OTHER -> getOldAuditLogs(auditLogs, cleanupRun.cutoff),
          !.idx = 1]
  /\ UNCHANGED <<webhookEvents, usageEvents, auditLogs>>

\* One iteration of the first loop: runMutation(deleteWebhookEvent) for an
\* event read as success, nothing for another.
CleanupWebhookEvent ==
  /\ cleanupRun.pc = "webhooks"
  /\ cleanupRun.idx <= Len(cleanupRun.local)
  /\ LET event == cleanupRun.local[cleanupRun.idx]
     IN  IF event.processingResult = "success"
           THEN /\ webhookEvents' = DbDelete(webhookEvents, event.id)
                /\ cleanupRun' = [cleanupRun EXCEPT !.idx = @ + 1,
                                                    !.cleaned.webhookEvents = @ + 1]
           ELSE /\ cleanupRun' = [cleanupRun EXCEPT !.idx = @ + 1]
                /\ UNCHANGED webhookEvents
  /\ UNCHANGED <<usageEvents, auditLogs>>

\* One iteration of the second loop.
CleanupUsageEvent ==
  /\ cleanupRun.pc = "usage"
  /\ cleanupRun.idx <= Len(cleanupRun.local)
  /\ LET event == cleanupRun.local[cleanupRun.idx]
     IN  IF event.processed
           THEN /\ usageEvents' = DbDelete(usageEvents, event.id)
                /\ cleanupRun' = [cleanupRun EXCEPT !.idx = @ + 1,
                                                    !.cleaned.usageEvents = @ + 1]
           ELSE /\ cleanupRun' = [cleanupRun EXCEPT !.idx = @ + 1]
                /\ UNCHANGED usageEvents
  /\ UNCHANGED <<webhookEvents, auditLogs>>

\* The end of a loop: the next query, or the result after the third loop,
\* which only counts the audit logs its query returned.
CleanupNext ==
  /\ \/ cleanupRun.pc \in {"webhooks", "usage"} /\ cleanupRun.idx > Len(cleanupRun.local)
     \/ cleanupRun.pc = "audit"
  /\ cleanupRun' =
       CASE cleanupRun.pc = "webhooks" -> [cleanupRun EXCEPT !.pc = "queryUsage"]
         [] cleanupRun.pc = "usage" -> [cleanupRun EXCEPT !.pc = "queryAudit"]
         [] OTHER -> [cleanupRun EXCEPT !.pc = "idle", !.result = "completed",
                                        !.cleaned.auditLogs = Len(cleanupRun.local)]
  /\ UNCHANGED <<webhookEvents, usageEvents, auditLogs>>

\* An administrator retries a stored webhook event.
RetryWebhook(id) ==
  /\ \E k \in 1..Len(webhookEvents) : webhookEvents[k].id = id
  /\ webhookEvents' = resetWebhookEvent(webhookEvents, id)
  /\ UNCHANGED <<usageEvents, auditLogs, cleanupRun>>

\* The tables on the day of the cleanup: events received (created) on the
\* days of EventDays, old and recent, of every outcome.
StoredEvent(id, day, result) ==
  [id |-> id, eventId |-> id, eventType |-> "subscription.updated",
   receivedAt |-> toISOString(day), processingResult |-> result,
   error |-> IF result = "error" THEN "boom" ELSE "", attempts |-> 1]
UsageEvent(id, polarCustomerId, day, processed) ==
  [id |-> id, polarCustomerId |-> polarCustomerId, createdAt |-> toISOString(day),
   processed |-> processed, error |-> "", polarEventId |-> ""]
StoredAuditLog(id, day) ==
  [id |-> id, action |-> "subscription.revoked", resourceType |-> "subscription",
   createdAt |-> toISOString(day)]
EventDays == {3, 5, 94}
ResultsStored == {"success", "error", "skipped", "none"}
StoredEventIds == {"w1", "w2"}

InitCleanup ==
  /\ \E d1 \in EventDays, d2 \in EventDays, r1 \in ResultsStored :
       webhookEvents = << StoredEvent("w1", d1, r1), StoredEvent("w2", d2, "success") >>
  /\ \E d \in EventDays, processed \in BOOLEAN :
       usageEvents = << UsageEvent("u1", "cus_1", d, processed),
                        UsageEvent("u2", "cus_1", 3, TRUE) >>
  /\ auditLogs = << StoredAuditLog("a1", 3), StoredAuditLog("a2", 94) >>
  /\ now = CleanupDay
  /\ deliveries = <<>>
  /\ mutatorCalls = [e \in EventIds |-> 0]
  /\ customers = <<>>
  /\ subscriptions = <<>>
  /\ circuitBreaker = ClosedBreaker
  /\ breakerLog = NoBreakerCall
  /\ reconcileRun = IdleReconcile
  /\ polarCallLog = {}
  /\ syncRun = IdleSync
  /\ billingSettings = <<>>
  /\ syncLog = NoSyncRuns
  /\ polar = PolarInitially
  /\ statusCalls = <<>>
  /\ lastOp = NoOp
  /\ cancelRun = IdleCancel
  /\ invoices = <<>>
  /\ invoiceRun = IdleInvoiceSync
  /\ cleanupRun = IdleCleanup
  /\ usageRun = IdleUsage
  /\ httpCall = NoHttpCall
  /\ IdleCallers

CleanupFrame ==
  UNCHANGED <<deliveries, mutatorCalls, tableVars, breakerVars, reconcileRun,
              polarCallLog, syncVars, polar, lifecycleVars, invoices, invoiceRun,
              usageRun, httpCall, callerVars>>

NextCleanup ==
  \/ \E daysToKeep \in DaysToKeepArgs : CleanupStart(daysToKeep) /\ CleanupFrame
  \/ CleanupQuery /\ CleanupFrame
  \/ CleanupWebhookEvent /\ CleanupFrame
  \/ CleanupUsageEvent /\ CleanupFrame
  \/ CleanupNext /\ CleanupFrame
  \/ \E id \in StoredEventIds : RetryWebhook(id) /\ CleanupFrame

SpecCleanup == InitCleanup /\ [][NextCleanup]_vars

\* The rows of a table that a step removes, and whether it leaves every
\* other row as it was.
Removed(rows, rowsAfter) ==
  {k \in 1..Len(rows) : \A j \in 1..Len(rowsAfter) : rowsAfter[j].id # rows[k].id}
OthersKept(rows, rowsAfter) ==
  LET Kept(r) == \E j \in 1..Len(rowsAfter) : rowsAfter[j].id = r.id
  IN  rowsAfter = SelectSeq(rows, Kept)
\* The rows the cleanup's last query returned.
ReadAs(id) == {k \in 1..Len(cleanupRun.local) : cleanupRun.local[k].id = id}

DefaultBatchSize == 100

\* getUnprocessedEvents: index byProcessed = false, .take(limit).
getUnprocessedEvents(rows, limit) ==
  LET Unprocessed(r) == ~r.processed IN Take(SelectSeq(rows, Unprocessed), limit)

\* markEventProcessed: processed = true; polarEventId and error only when the
\* argument is a non-empty string.
markEventProcessed(rows, id, polarEventId, success, error) ==
  [k \in 1..Len(rows) |->
     IF rows[k].id = id
       THEN [rows[k] EXCEPT !.processed = TRUE,
                            !.polarEventId = IF polarEventId # "" THEN polarEventId ELSE @,
                            !.error = IF error # "" THEN error ELSE @]
       ELSE rows[k]]

\* eventsByCustomer: the customer ids of the batch in the order of their first
\* event (events without polarCustomerId are passed over), and the events of
\* one of them.
RECURSIVE CustomersOf(_, _)
CustomersOf(events, seen) ==
  IF events = <<>> THEN <<>>
  ELSE LET c == Head(events).polarCustomerId
       IN  IF c = "" \/ c \in seen THEN CustomersOf(Tail(events), seen)
           ELSE <<c>> \o CustomersOf(Tail(events), seen \cup {c})
customerEvents(events, polarCustomerId) ==
  LET Mine(r) == r.polarCustomerId = polarCustomerId IN SelectSeq(events, Mine)

\* What polarApi.metrics.ingestEvents answers: counts, or it throws an Error
\* with a message.
IngestAnswers ==
  {[throws |-> FALSE, message |-> ""], [throws |-> TRUE, message |-> "Polar API error"]}
BatchSizeArgs == {Undefined, Some(0), Some(2)}

\* An execution after each of its steps, as a function of the execution before
\* the step: the handler is the same whichever caller started it.
\* Up to the first await: batchSize || 100.
RunStarted(run, batchSize) ==
  [IdleUsage EXCEPT
     !.pc = "query", !.runs = run.runs + 1,
     !.k = IF batchSize = Undefined THEN DefaultBatchSize
           ELSE IF batchSize[1] = 0 THEN DefaultBatchSize ELSE batchSize[1]]

\* After runQuery(getUnprocessedEvents): an empty batch ends the run.
RunQueried(run, rows) ==
  LET events == getUnprocessedEvents(rows, run.k)
      groups == CustomersOf(events, {})
  IN  IF events = <<>>
        THEN [run EXCEPT !.pc = "idle", !.result = "returned", !.k = 0]
        ELSE [run EXCEPT !.pc = "send", !.local = events, !.groups = groups,
                         !.g = 1, !.k = 0,
                         !.sent = [i \in 1..Len(groups) |->
                                     [calls |-> 0, ok |-> FALSE]]]

\* After polarApi.metrics.ingestEvents for the group run.g.
RunSent(run, answer) ==
  [run EXCEPT !.pc = IF answer.throws THEN "markFailed" ELSE "markOk",
              !.k = 1,
              !.sent[run.g] = [calls |-> @.calls + 1, ok |-> ~answer.throws]]

\* The event the next marking of the run is for.
EventToMark(run) == customerEvents(run.local, run.groups[run.g])[run.k]

\* The handler up to its first await.
UsageStart(batchSize) ==
  /\ usageRun.pc = "idle"
  /\ usageRun.runs < MaxJobRuns
  /\ usageRun' = RunStarted(usageRun, batchSize)
  /\ UNCHANGED usageEvents

\* runQuery(getUnprocessedEvents) answers; an empty batch ends the run.
UsageQuery ==
  /\ usageRun.pc = "query"
  /\ usageRun' = RunQueried(usageRun, usageEvents)
  /\ UNCHANGED usageEvents

\* polarApi.metrics.ingestEvents for the next group answers or throws.
UsageSend(answer) ==
  /\ usageRun.pc = "send"
  /\ usageRun.g <= Len(usageRun.groups)
  /\ usageRun' = RunSent(usageRun, answer)
  /\ UNCHANGED usageEvents

\* After the last marking of a group: the counters, and the next group.
NextGroup(run, markedOk) ==
  LET n == Len(customerEvents(run.local, run.groups[run.g]))
  IN  IF run.k < n THEN [run EXCEPT !.k = @ + 1]
      ELSE [run EXCEPT !.pc = "send", !.g = @ + 1, !.k = 0,
                       !.processed = IF markedOk THEN @ + n ELSE @,
                       !.failed = IF markedOk THEN @ ELSE @ + n]

\* runMutation(markEventProcessed, success: true) in the try block commits, or
\* throws into the catch block.
UsageMarkProcessed(throws) ==
  /\ usageRun.pc = "markOk"
  /\ LET event == EventToMark(usageRun)
     IN  IF throws
           THEN /\ usageRun' = [usageRun EXCEPT !.pc = "markFailed", !.k = 1]
                /\ UNCHANGED usageEvents
           ELSE /\ usageEvents' = markEventProcessed(usageEvents, event.id, "batch",
                                                     TRUE, "")
                /\ usageRun' = NextGroup(usageRun, TRUE)

\* runMutation(markEventProcessed, success: false, error) in the catch block
\* commits, or throws out of the handler.
UsageMarkFailed(throws) ==
  /\ usageRun.pc = "markFailed"
  /\ LET event == EventToMark(usageRun)
     IN  IF throws
           THEN /\ usageRun' = [usageRun EXCEPT !.pc = "idle", !.result = "threw"]
                /\ UNCHANGED usageEvents
           ELSE /\ usageEvents' = markEventProcessed(usageEvents, event.id, "",
                                                     FALSE, "Polar API error")
                /\ usageRun' = NextGroup(usageRun, FALSE)

\* After the last group: the result.
UsageReturn ==
  /\ usageRun.pc = "send"
  /\ usageRun.g > Len(usageRun.groups)
  /\ usageRun' = [usageRun EXCEPT !.pc = "idle", !.result = "returned"]
  /\ UNCHANGED usageEvents

InitUsage ==
  /\ webhookEvents = <<>>
  /\ \E p1 \in BOOLEAN, c3 \in {"cus_1", "cus_2", ""} :
       usageEvents = << UsageEvent("u1", "cus_1", 3, p1),
                        UsageEvent("u2", "cus_2", 3, FALSE),
                        UsageEvent("u3", c3, 5, FALSE),
                        UsageEvent("u4", "cus_1", 5, FALSE) >>
  /\ auditLogs = <<>>
  /\ now = CleanupDay
  /\ deliveries = <<>>
  /\ mutatorCalls = [e \in EventIds |-> 0]
  /\ customers = <<>>
  /\ subscriptions = <<>>
  /\ circuitBreaker = ClosedBreaker
  /\ breakerLog = NoBreakerCall
  /\ reconcileRun = IdleReconcile
  /\ polarCallLog = {}
  /\ syncRun = IdleSync
  /\ billingSettings = <<>>
  /\ syncLog = NoSyncRuns
  /\ polar = PolarInitially
  /\ statusCalls = <<>>
  /\ lastOp = NoOp
  /\ cancelRun = IdleCancel
  /\ invoices = <<>>
  /\ invoiceRun = IdleInvoiceSync
  /\ cleanupRun = IdleCleanup
  /\ usageRun = IdleUsage
  /\ httpCall = NoHttpCall
  /\ IdleCallers

UsageFrame ==
  UNCHANGED <<webhookVars, tableVars, breakerVars, reconcileVars, polarCallLog,
              syncVars, polar, lifecycleVars, invoices, invoiceRun, cleanupRun, httpCall,
              callerVars>>

NextUsage ==
  \/ \E batchSize \in BatchSizeArgs : UsageStart(batchSize) /\ UsageFrame
  \/ UsageQuery /\ UsageFrame
  \/ \E a \in IngestAnswers : UsageSend(a) /\ UsageFrame
  \/ \E throws \in BOOLEAN : UsageMarkProcessed(throws) /\ UsageFrame
  \/ \E throws \in BOOLEAN : UsageMarkFailed(throws) /\ UsageFrame
  \/ UsageReturn /\ UsageFrame

SpecUsage == InitUsage /\ [][NextUsage]_vars

\* The row of a pulled event as it is stored now.
StoredUsageEvent(id) ==
  LET Same(r) == r.id = id IN SelectSeq(usageEvents, Same)[1]

\* C25: once a batchIngestUsage run has returned, exactly one metering call
\* was made for every customer group of the pulled batch, every event of a
\* group whose call succeeded is processed with no error, and every event of a
\* group whose call failed is processed with the error text set.
C25_BatchMarking ==
  usageRun.result = "returned" =>
    \A g \in 1..Len(usageRun.groups) :
      /\ usageRun.sent[g].calls = 1
      /\ \A k \in 1..Len(customerEvents(usageRun.local, usageRun.groups[g])) :
           LET row == StoredUsageEvent(
                        customerEvents(usageRun.local, usageRun.groups[g])[k].id)
           IN  /\ row.processed
               /\ usageRun.sent[g].ok => row.error = ""
               /\ ~usageRun.sent[g].ok => row.error # ""

\* ------------------------------------------------------------ polarRequest
DefaultRetries == 3

\* What one attempt meets: fetch rejects (a network failure), or resolves with
\* a response of some status whose body parses as JSON or does not (an empty
\* body, as with 204 No Content, does not).
HttpStatuses == {200, 204, 404, 429, 500, 503}
HttpAnswers ==
  {[network |-> TRUE, status |-> 0, json |-> FALSE]}
    \cup [network : {FALSE}, status : HttpStatuses, json : BOOLEAN]
responseOk(answer) == answer.status >= 200 /\ answer.status <= 299

\* The error an attempt ends with in the catch block; Undefined when the
\* attempt returned the data.
AttemptError(answer) ==
  IF answer.network THEN [name |-> "TypeError", statusCode |-> 0]
  ELSE IF ~responseOk(answer) THEN [name |-> "PolarAPIError", statusCode |-> answer.status]
  ELSE IF ~answer.json THEN [name |-> "SyntaxError", statusCode |-> 0]
  ELSE Undefined
RequestFailed == [name |-> "Error", statusCode |-> 0]

\* A client that retries every error.
ClientError_Retried(error) == FALSE

\* error instanceof PolarAPIError && error.statusCode && error.statusCode < 500
ClientError(error) ==
  error.name = "PolarAPIError" /\ error.statusCode # 0 /\ error.statusCode < 500

\* Math.pow(2, attempt) * 1000 milliseconds, in seconds.
Backoff(attempt) == 2^attempt

RetriesArgs == {Undefined, Some(0), Some(1), Some(2)}

\* The call up to its first fetch; with no attempt to make, the throw after
\* the loop.
HttpStart(retries) ==
  /\ httpCall.pc = "idle"
  /\ LET n == IF retries = Undefined THEN DefaultRetries ELSE retries[1]
     IN  httpCall' = [NoHttpCall EXCEPT
                        !.retries = n,
                        !.pc = IF 0 < n THEN "fetch" ELSE "threw",
                        !.lastError = IF 0 < n THEN Undefined ELSE RequestFailed]

\* One attempt: fetch and response.json() settle.
HttpAttempt(answer) ==
  /\ httpCall.pc = "fetch"
  /\ LET error == AttemptError(answer)
         logged == [httpCall EXCEPT !.log = Append(@, answer)]
     IN  httpCall' =
           IF error = Undefined
             THEN [logged EXCEPT !.pc = "returned"]
           ELSE IF ClientError(error)
             THEN [logged EXCEPT !.pc = "threw", !.lastError = error]
           ELSE IF httpCall.attempt < httpCall.retries - 1
             THEN [logged EXCEPT !.pc = "sleep", !.lastError = error,
                                 !.waits = Append(@, Backoff(httpCall.attempt))]
           ELSE [logged EXCEPT !.pc = "threw", !.lastError = error]

\* The backoff timer fires.
HttpWake ==
  /\ httpCall.pc = "sleep"
  /\ httpCall' = [httpCall EXCEPT !.pc = "fetch", !.attempt = @ + 1]

InitHttp ==
  /\ webhookEvents = <<>>
  /\ usageEvents = <<>>
  /\ auditLogs = <<>>
  /\ now = 0
  /\ deliveries = <<>>
  /\ mutatorCalls = [e \in EventIds |-> 0]
  /\ customers = <<>>
  /\ subscriptions = <<>>
  /\ circuitBreaker = ClosedBreaker
  /\ breakerLog = NoBreakerCall
  /\ reconcileRun = IdleReconcile
  /\ polarCallLog = {}
  /\ syncRun = IdleSync
  /\ billingSettings = <<>>
  /\ syncLog = NoSyncRuns
  /\ polar = PolarInitially
  /\ statusCalls = <<>>
  /\ lastOp = NoOp
  /\ cancelRun = IdleCancel
  /\ invoices = <<>>
  /\ invoiceRun = IdleInvoiceSync
  /\ cleanupRun = IdleCleanup
  /\ usageRun = IdleUsage
  /\ httpCall = NoHttpCall
  /\ IdleCallers

HttpFrame ==
  UNCHANGED <<webhookVars, tableVars, breakerVars, reconcileVars, polarCallLog,
              syncVars, polar, lifecycleVars, invoices, invoiceRun, usageEvents,
              cleanupRun, usageRun, callerVars>>

NextHttp ==
  \/ \E retries \in RetriesArgs : HttpStart(retries) /\ HttpFrame
  \/ \E a \in HttpAnswers : HttpAttempt(a) /\ HttpFrame
  \/ HttpWake /\ HttpFrame

SpecHttp == InitHttp /\ [][NextHttp]_vars
\* fetch settles and the timer fires: every step that can be taken is taken.
SpecHttpLive == SpecHttp /\ WF_vars(NextHttp)

ClientStatus(answer) == ~answer.network /\ answer.status >= 400 /\ answer.status <= 499

\* C26: an attempt that the processor answers with a 4xx status is the last
\* one: the call has thrown that error, with no attempt and no backoff wait
\* after it; when it is the first answer, the call made exactly one attempt and
\* never waited.
C26_ClientErrorNotRetried ==
  \A i \in 1..Len(httpCall.log) :
    ClientStatus(httpCall.log[i]) =>
      /\ i = Len(httpCall.log)
      /\ Len(httpCall.waits) = i - 1
      /\ httpCall.pc = "threw"
      /\ httpCall.lastError = [name |-> "PolarAPIError",
                               statusCode |-> httpCall.log[i].status]

\* The first answer was 404: one attempt, no wait, the error thrown.
C26_Witness ==
  /\ httpCall.pc = "threw"
  /\ Len(httpCall.log) = 1
  /\ httpCall.log[1].status = 404
  /\ httpCall.waits = <<>>
  /\ httpCall.retries = DefaultRetries

\* C27: polarRequest terminates; it makes at most `retries` attempts, waits
\* 2^attempt seconds between one attempt and the next, returns on the first
\* successful (2xx) response without a further attempt, and when it throws
\* after a failed attempt it throws the error of the last attempt.
C27_BoundedRetry ==
  /\ [](/\ Len(httpCall.log) <= httpCall.retries
        /\ \A i \in 1..Len(httpCall.waits) : httpCall.waits[i] = 2^(i - 1)
        /\ \A i \in 1..Len(httpCall.log) :
             (~httpCall.log[i].network /\ responseOk(httpCall.log[i]))
               => i = Len(httpCall.log) /\ httpCall.pc = "returned"
        /\ (httpCall.pc = "threw" /\ httpCall.log # <<>>)
             => httpCall.lastError
                  = AttemptError(httpCall.log[Len(httpCall.log)]))
  /\ <>(httpCall.pc \in {"returned", "threw"})

\* A step in which the call for one customer fails, a step in which the run
\* as a whole fails, and the step that ends a failed run.
PerItemFailure == syncRun'.failed = syncRun.failed + 1
TotalFailure == syncRun.pc # "failed" /\ syncRun'.pc = "failed"
FailedRunEnds == syncRun.pc = "failed" /\ syncRun'.pc # "failed"
FailedRow(rows) == rows # <<>> /\ rows[Len(rows)].status = "failed"

ReconcileEnds == reconcileRun.pc = "compare" /\ reconcileRun'.pc = "idle"
\* Whether the list holds an entry of that type for that local row.
Listed(list, type, localId) ==
  \E k \in 1..Len(list) : list[k].type = type /\ list[k].localId = localId

ProductNames == {"Premium Plus", "Enterprise", "Premium", "Pro", "Starter"}
NoProduct == "none"
planOf(productName) ==
  IF productName \in {"Premium Plus", "Enterprise"} THEN "premiumPlus"
  ELSE IF productName \in {"Premium", "Pro"} THEN "premium"
  ELSE "free"

\* The first row of the customer's subscriptions with one of the statuses;
\* 0 for null.
FirstWithStatus(subs, customerId, statuses) ==
  LET hits == {i \in 1..Len(subs) :
                 subs[i].customerId = customerId /\ subs[i].status \in statuses}
  IN  IF hits = {} THEN 0 ELSE CHOOSE i \in hits : \A j \in hits : i <= j

\* A profile query that does not filter by status.
getCurrentUserProfile_NoFilter(custs, subs, productName) ==
  LET customer == IF custs = <<>> THEN 0 ELSE 1
      subscription == IF customer = 0 THEN 0
                      ELSE FirstWithStatus(subs, customer, SubscriptionStates)
  IN  [plan |-> IF subscription # 0 /\ productName # NoProduct
                  THEN planOf(productName) ELSE "free",
       subscription |-> subscription]

\* getCurrentUserProfile for the user every customer row belongs to: plan and
\* subscription of the result.
getCurrentUserProfile(custs, subs, productName) ==
  LET customer == IF custs = <<>> THEN 0 ELSE 1
      subscription == IF customer = 0 THEN 0
                      ELSE FirstWithStatus(subs, customer, {"active", "trialing"})
  IN  [plan |-> IF subscription # 0 /\ productName # NoProduct
                  THEN planOf(productName) ELSE "free",
       subscription |-> subscription]

\* getActiveSubscription for that user: the first active row, else the first
\* trialing one, else null (0).
getActiveSubscription(subs) ==
  LET active == FirstWithStatus(subs, 1, {"active"})
  IN  IF active # 0 THEN active ELSE FirstWithStatus(subs, 1, {"trialing"})

\* A query, recorded with what it returned, the table it read and the
\* operation applied last before it.
AccessQuery(fn, result) ==
  /\ Len(statusCalls) < MaxStatusCalls
  /\ statusCalls' = Append(statusCalls, [fn |-> fn, result |-> result,
                                         read |-> subscriptions, after |-> lastOp])
CallGetCurrentUserProfile(productName) ==
  AccessQuery("getCurrentUserProfile",
              getCurrentUserProfile(customers, subscriptions, productName))
CallGetActiveSubscription ==
  AccessQuery("getActiveSubscription",
              [plan |-> "free", subscription |-> getActiveSubscription(subscriptions)])

\* subscription.updated notifications for the user's subscription, with known
\* and unknown statuses.
AccessUpdatedData ==
  [id : {"sub_1"}, customer_id : {"cus_1"},
   status : {"active", "trialing", "past_due", "canceled", "paused", "ACTIVE", "toString"},
   current_period_start : {PeriodStart}, current_period_end : {PeriodEnd},
   cancel_at_period_end : {FALSE}, canceled_at : {Undefined},
   ended_at : {Undefined}, metadata : {NoMetadata}]
AccessRevokedData == {d \in RevokedData : d.id = "sub_1"}

InitAccess ==
  /\ IdleWebhook
  /\ customers = << [polarCustomerId |-> "cus_1", email |-> "a@x.io",
                     metadata |-> NoMetadata] >>
  /\ \E st \in {"active", "trialing"} :
       subscriptions = << LocalSubscription("sub_1", 1, st, FALSE) >>
  /\ IdleBreaker
  /\ IdleJobs

NextAccess ==
  \/ \E d \in AccessUpdatedData : HandleSubscriptionUpdated(d) /\ LifecycleFrame
  \/ \E d \in AccessRevokedData : HandleSubscriptionRevoked(d) /\ LifecycleFrame
  \/ \E name \in ProductNames \cup {NoProduct} :
       CallGetCurrentUserProfile(name) /\ StatusMapFrame
  \/ CallGetActiveSubscription /\ StatusMapFrame

SpecAccess == InitAccess /\ [][NextAccess]_vars

\* Whether the table holds a subscription that entitles the user, and whether
\* an operation was a committed revocation or a committed update with a
\* status the processor's map does not know.
Entitles(subs) == \E i \in 1..Len(subs) : subs[i].status \in {"active", "trialing"}
UnknownStatus(s) == s # "" /\ s \notin SubscriptionStates
RevokedOrUnknown(op) ==
  /\ op.op \in {"subscription.revoked", "subscription.updated"}
  /\ op.applied
  /\ op.op = "subscription.updated" => UnknownStatus(op.payload.status)

C31_BreakerStateInvariant ==
  /\ circuitBreaker.isOpen =>
       /\ circuitBreaker.failures >= FailureThreshold
       /\ circuitBreaker.nextRetry # Undefined
  /\ circuitBreaker.failures >= 0

\* The breaker opened, a check after the cooldown closed it, a success was
\* recorded and three further failures have opened it again.
C31_Witness ==
  /\ circuitBreaker.isOpen
  /\ circuitBreaker.failures = FailureThreshold
  /\ breakerLog.op = "recordFailure"
  /\ breakerLog.failedAt > CooldownMinutes
  /\ circuitBreaker.nextRetry = toISOString(breakerLog.failedAt + CooldownMinutes)

\* ------------------------------------------ the breaker under overlapping runs
\* C32: with runs of syncAllSubscriptions and syncPendingInvoices overlapping
\* on the shared breaker, no run makes a processor call while the breaker is
\* open and nextRetry has not passed, and no step closes the breaker before
\* nextRetry has passed.
C32_BreakerStaysOpen ==
  /\ [](\A c \in polarCallLog : ~c.whileOpen)
  /\ [][(BreakerDenies(circuitBreaker, now) /\ now' = now)
          => circuitBreaker'.isOpen]_vars

\* ------------------------------------ two executions of batchIngestUsage
\* batchIngestUsage is a public action: a second call may begin while the
\* first is at any of its awaits. The second execution takes the same steps
\* over the same table.
OverlapStart(batchSize) ==
  /\ usageOverlap.pc = "idle"
  /\ usageOverlap.runs < MaxJobRuns
  /\ usageOverlap' = RunStarted(usageOverlap, batchSize)
  /\ UNCHANGED usageEvents

OverlapQuery ==
  /\ usageOverlap.pc = "query"
  /\ usageOverlap' = RunQueried(usageOverlap, usageEvents)
  /\ UNCHANGED usageEvents

OverlapSend(answer) ==
  /\ usageOverlap.pc = "send"
  /\ usageOverlap.g <= Len(usageOverlap.groups)
  /\ usageOverlap' = RunSent(usageOverlap, answer)
  /\ UNCHANGED usageEvents

OverlapMarkProcessed(throws) ==
  /\ usageOverlap.pc = "markOk"
  /\ IF throws
       THEN /\ usageOverlap' = [usageOverlap EXCEPT !.pc = "markFailed", !.k = 1]
            /\ UNCHANGED usageEvents
       ELSE /\ usageEvents' = markEventProcessed(usageEvents, EventToMark(usageOverlap).id,
                                                 "batch", TRUE, "")
            /\ usageOverlap' = NextGroup(usageOverlap, TRUE)

OverlapMarkFailed(throws) ==
  /\ usageOverlap.pc = "markFailed"
  /\ IF throws
       THEN /\ usageOverlap' = [usageOverlap EXCEPT !.pc = "idle", !.result = "threw"]
            /\ UNCHANGED usageEvents
       ELSE /\ usageEvents' = markEventProcessed(usageEvents, EventToMark(usageOverlap).id,
                                                 "", FALSE, "Polar API error")
            /\ usageOverlap' = NextGroup(usageOverlap, FALSE)

OverlapReturn ==
  /\ usageOverlap.pc = "send"
  /\ usageOverlap.g > Len(usageOverlap.groups)
  /\ usageOverlap' = [usageOverlap EXCEPT !.pc = "idle", !.result = "returned"]
  /\ UNCHANGED usageEvents

OverlapFrame ==
  UNCHANGED <<webhookVars, tableVars, breakerVars, reconcileVars, polarCallLog,
              syncVars, polar, lifecycleVars, invoices, invoiceRun, cleanupRun, httpCall,
              usageRun, checkoutVars, resumeRun>>

NextOverlap ==
  \/ \E batchSize \in BatchSizeArgs : UsageStart(batchSize) /\ UsageFrame
  \/ UsageQuery /\ UsageFrame
  \/ \E a \in IngestAnswers : UsageSend(a) /\ UsageFrame
  \/ \E throws \in BOOLEAN : UsageMarkProcessed(throws) /\ UsageFrame
  \/ \E throws \in BOOLEAN : UsageMarkFailed(throws) /\ UsageFrame
  \/ UsageReturn /\ UsageFrame
  \/ \E batchSize \in BatchSizeArgs : OverlapStart(batchSize) /\ OverlapFrame
  \/ OverlapQuery /\ OverlapFrame
  \/ \E a \in IngestAnswers : OverlapSend(a) /\ OverlapFrame
  \/ \E throws \in BOOLEAN : OverlapMarkProcessed(throws) /\ OverlapFrame
  \/ \E throws \in BOOLEAN : OverlapMarkFailed(throws) /\ OverlapFrame
  \/ OverlapReturn /\ OverlapFrame

SpecOverlap == InitUsage /\ [][NextOverlap]_vars

\* The metering calls of an execution that carried the event: the groups of
\* its batch that hold the event and were sent.
SendsOf(run, id) ==
  {g \in 1..Len(run.groups) :
     /\ run.sent[g].calls > 0
     /\ \E k \in 1..Len(customerEvents(run.local, run.groups[g])) :
          customerEvents(run.local, run.groups[g])[k].id = id}

\* C33: over the executions of batchIngestUsage, overlapping ones included,
\* every usage event is sent to the metering endpoint at most once.
C33_ForwardedAtMostOnce ==
  \A i \in 1..Len(usageEvents) :
    Cardinality(SendsOf(usageRun, usageEvents[i].id))
      + Cardinality(SendsOf(usageOverlap, usageEvents[i].id)) <= 1

\* --------------------------------------- batchIngestUsage called repeatedly
\* The action is called again and again with the same batch size, the
\* processor accepts every call and every marking commits.
RepeatedBatchSize == Some(2)
CustomerIdsStored == {"cus_1", ""}

\* The next call begins once the previous one has returned (the count of
\* runs is not kept beyond MaxJobRuns).
UsageAgain ==
  /\ usageRun.pc = "idle"
  /\ usageRun' = [RunStarted(usageRun, RepeatedBatchSize) EXCEPT !.runs = MaxJobRuns]
  /\ UNCHANGED usageEvents

\* Four unprocessed events, each with or without a processor customer id.
InitRepeated ==
  /\ IdleWebhook
  /\ customers = <<>>
  /\ subscriptions = <<>>
  /\ IdleBreaker
  /\ reconcileRun = IdleReconcile
  /\ auditLogs = <<>>
  /\ polarCallLog = {}
  /\ syncRun = IdleSync
  /\ billingSettings = <<>>
  /\ syncLog = NoSyncRuns
  /\ polar = PolarInitially
  /\ statusCalls = <<>>
  /\ lastOp = NoOp
  /\ cancelRun = IdleCancel
  /\ invoices = <<>>
  /\ invoiceRun = IdleInvoiceSync
  /\ \E c1 \in CustomerIdsStored, c2 \in CustomerIdsStored,
        c3 \in CustomerIdsStored, c4 \in CustomerIdsStored :
       usageEvents = << UsageEvent("u1", c1, 3, FALSE), UsageEvent("u2", c2, 3, FALSE),
                        UsageEvent("u3", c3, 5, FALSE), UsageEvent("u4", c4, 5, FALSE) >>
  /\ cleanupRun = IdleCleanup
  /\ usageRun = IdleUsage
  /\ httpCall = NoHttpCall
  /\ IdleCallers

NextRepeated ==
  \/ UsageAgain /\ UsageFrame
  \/ UsageQuery /\ UsageFrame
  \/ UsageSend([throws |-> FALSE, message |-> ""]) /\ UsageFrame
  \/ UsageMarkProcessed(FALSE) /\ UsageFrame
  \/ UsageReturn /\ UsageFrame

SpecRepeated == InitRepeated /\ [][NextRepeated]_vars /\ WF_vars(NextRepeated)

\* C34: when batchIngestUsage is called repeatedly with batch size N and the
\* processor is reachable, every unprocessed usage event that has a processor
\* customer id is eventually marked processed, however many unprocessed
\* events without a processor customer id there are.
C34_ForwardingProgress ==
  <>(\A i \in 1..Len(usageEvents) :
       usageEvents[i].polarCustomerId # "" => usageEvents[i].processed)

\* ------------------------------------- two notifications of one subscription
\* The processor issues subscription.created (evt_1) and later a
\* subscription.updated or subscription.canceled (evt_2); the dispatcher
\* processes them one after the other, in either order. The stored event keeps
\* the payload (storeWebhookEvent) and the outcome (markWebhookEventProcessed).
Recorded(eventId, eventType, payload) ==
  /\ getWebhookEventById(webhookEvents, eventId) = 0
  /\ webhookEvents' =
       Append(webhookEvents,
              [eventId |-> eventId, eventType |-> eventType, payload |-> payload,
               processingResult |-> IF lastOp'.applied THEN "success" ELSE "error",
               error |-> IF lastOp'.applied THEN "" ELSE "Error", attempts |-> 1])

ProcessCreated(d) ==
  HandleSubscriptionCreated(d) /\ Recorded("evt_1", "subscription.created", d)
ProcessUpdated(d) ==
  HandleSubscriptionUpdated(d) /\ Recorded("evt_2", "subscription.updated", d)
ProcessCanceled(d) ==
  HandleSubscriptionCanceled(d) /\ Recorded("evt_2", "subscription.canceled", d)

\* A cancellation that took effect at once (status canceled at the processor).
CanceledAtOnce == {d \in CanceledData : ~d.cancel_at_period_end}

OrderFrame ==
  UNCHANGED <<deliveries, mutatorCalls, breakerVars, reconcileRun, polarCallLog,
              syncVars, statusCalls, maintenanceVars>>

NextOrder ==
  \/ \E d \in CreatedData : ProcessCreated(d) /\ OrderFrame
  \/ \E d \in UpdatedData : ProcessUpdated(d) /\ OrderFrame
  \/ \E d \in CanceledAtOnce : ProcessCanceled(d) /\ OrderFrame
  \/ Tick /\ now <= lastOp.n /\ BreakerFrame

SpecOrder == InitLifecycle /\ [][NextOrder]_vars

\* Both notifications are in the event store with outcome success and are
\* about the same subscription.
BothProcessed ==
  /\ getWebhookEventById(webhookEvents, "evt_1") # 0
  /\ getWebhookEventById(webhookEvents, "evt_2") # 0
  /\ EventRow(webhookEvents, "evt_1").processingResult = "success"
  /\ EventRow(webhookEvents, "evt_2").processingResult = "success"
  /\ EventRow(webhookEvents, "evt_1").payload.id = EventRow(webhookEvents, "evt_2").payload.id

\* C35: once subscription.created and a later-issued subscription.updated or
\* subscription.canceled for the same subscription have both been processed
\* with outcome success, the local subscription has the status the later
\* notification carried, whichever was processed first.
C35_OrderIndependence ==
  BothProcessed =>
    LET later == EventRow(webhookEvents, "evt_2").payload
        i == getSubscriptionByPolarId(subscriptions, later.id)
    IN  /\ i # 0
        /\ subscriptions[i].status = mapPolarStatus(later.status)

\* ---------------------------------------- two notifications of one invoice
\* webhooks.createInvoice: nothing without the customer; the row with that
\* polarInvoiceId is patched (status), or a row is inserted.
getInvoiceByPolarId(rows, polarInvoiceId) ==
  IF \E k \in 1..Len(rows) : rows[k].polarInvoiceId = polarInvoiceId
    THEN CHOOSE k \in 1..Len(rows) :
           /\ rows[k].polarInvoiceId = polarInvoiceId
           /\ \A j \in 1..(k - 1) : rows[j].polarInvoiceId # polarInvoiceId
    ELSE 0

createInvoice(rows, customerId, polarInvoiceId, status) ==
  LET k == getInvoiceByPolarId(rows, polarInvoiceId)
  IN  IF customerId = 0 THEN rows
      ELSE IF k # 0 THEN [rows EXCEPT ![k].status = status]
      ELSE Append(rows, Invoice(polarInvoiceId, status))

\* webhooks.updateInvoiceStatus: patches the row with that polarInvoiceId, if
\* there is one.
updateInvoiceStatusByPolarId(rows, polarInvoiceId, status, paidAt) ==
  LET k == getInvoiceByPolarId(rows, polarInvoiceId)
  IN  IF k # 0 THEN updateInvoiceStatus(rows, k, status, paidAt) ELSE rows

\* What the invoice notifications carry: invoice.created the status the
\* invoice had when it was issued, invoice.paid the time of payment or none.
InvoiceIds == {"in_1", "in_2"}
InvoiceCreatedData == [id : InvoiceIds, customer_id : {"cus_1"}, status : {"draft", "open"}]
InvoicePaidData == [id : InvoiceIds, paid_at : {Undefined, ProcessorTime}]

\* handleInvoiceCreated: getCustomerByPolarId, then createInvoice.
HandleInvoiceCreated(invoiceData) ==
  /\ lastOp.n < MaxOps
  /\ invoices' = createInvoice(invoices,
                     getCustomerByPolarId(customers, invoiceData.customer_id),
                     invoiceData.id, invoiceData.status)
  /\ lastOp' = Op("invoice.created", invoiceData, TRUE)
  /\ UNCHANGED <<customers, subscriptions, auditLogs, cancelRun, polar>>

\* handleInvoicePaid: updateInvoiceStatus with status paid and
\* paid_at || new Date().toISOString().
HandleInvoicePaid(invoiceData) ==
  /\ lastOp.n < MaxOps
  /\ invoices' = updateInvoiceStatusByPolarId(
                    invoices, invoiceData.id, "paid",
                    IF invoiceData.paid_at # Undefined THEN invoiceData.paid_at
                    ELSE toISOString(now))
  /\ lastOp' = Op("invoice.paid", invoiceData, TRUE)
  /\ UNCHANGED <<customers, subscriptions, auditLogs, cancelRun, polar>>

\* invoice.created is evt_1, invoice.paid is evt_2; each is processed once.
InvoiceOrderFrame ==
  UNCHANGED <<deliveries, mutatorCalls, breakerVars, reconcileRun, polarCallLog,
              syncVars, statusCalls, invoiceRun, usageEvents, cleanupRun, usageRun,
              httpCall, callerVars>>

NextInvoiceOrder ==
  \/ \E d \in InvoiceCreatedData :
       HandleInvoiceCreated(d) /\ Recorded("evt_1", "invoice.created", d)
         /\ InvoiceOrderFrame
  \/ \E d \in InvoicePaidData :
       HandleInvoicePaid(d) /\ Recorded("evt_2", "invoice.paid", d)
         /\ InvoiceOrderFrame
  \/ Tick /\ now <= lastOp.n /\ BreakerFrame

SpecInvoiceOrder == InitLifecycle /\ [][NextInvoiceOrder]_vars

\* C36: once invoice.paid for an invoice has been recorded with outcome
\* success and invoice.created for the same invoice has been processed too,
\* the local invoice exists with status paid and paidAt set, whichever of the
\* two was processed first.
C36_PaidStaysPaid ==
  BothProcessed =>
    LET k == getInvoiceByPolarId(invoices, EventRow(webhookEvents, "evt_2").payload.id)
    IN  /\ k # 0
        /\ invoices[k].status = "paid"
        /\ invoices[k].paidAt # Undefined

\* ------------------------------------------------------- getLastSyncStatus
\* .withIndex("byKey", q => q.eq("key", "lastSync_subscriptions")).first():
\* an index is read in ascending order (the key, then the time of insertion),
\* so first() is the row inserted first. Undefined for null.
getLastSyncStatus(rows) ==
  LET Mine(r) == r.key = <<"lastSync_", "subscriptions">>
      mine == SelectSeq(rows, Mine)
  IN  IF mine = <<>> THEN Undefined ELSE Some(mine[1])

\* C38: after any sequence of runs of syncAllSubscriptions, getLastSyncStatus
\* returns the status recorded by the most recent run.
C38_HealthReportsLatestSync ==
  (syncRun.pc = "idle" /\ billingSettings # <<>>) =>
    /\ getLastSyncStatus(billingSettings) # Undefined
    /\ getLastSyncStatus(billingSettings)[1].status
         = billingSettings[Len(billingSettings)].status

\* ------------------------------------------------------ checkout sessions
\* A checkout session row: createCheckoutSession inserts it with status
\* pending.
CheckoutSession(polarCheckoutId, expiresDay) ==
  [polarCheckoutId |-> polarCheckoutId, status |-> "pending",
   expiresAt |-> toISOString(expiresDay), completedAt |-> Undefined]

getCheckoutByPolarId(rows, polarCheckoutId) ==
  IF \E k \in 1..Len(rows) : rows[k].polarCheckoutId = polarCheckoutId
    THEN CHOOSE k \in 1..Len(rows) :
           /\ rows[k].polarCheckoutId = polarCheckoutId
           /\ \A j \in 1..(k - 1) : rows[j].polarCheckoutId # polarCheckoutId
    ELSE 0

\* completeCheckoutSession: nothing for an unknown id or a completed
\* session; any other session becomes completed.
completeCheckoutSession(rows, polarCheckoutId, completedAt, t) ==
  LET k == getCheckoutByPolarId(rows, polarCheckoutId)
  IN  IF k = 0 THEN rows
      ELSE IF rows[k].status = "completed" THEN rows
      ELSE [rows EXCEPT ![k].status = "completed",
                        ![k].completedAt = IF completedAt # Undefined THEN completedAt
                                           ELSE toISOString(t)]

\* cancelCheckoutSession throws for a caller who does not own the session and
\* for a session that is not pending.
cancelCheckoutSessionThrows(rows, sessionId, owner) ==
  ~owner \/ rows[sessionId].status # "pending"
cancelCheckoutSession(rows, sessionId) == [rows EXCEPT ![sessionId].status = "canceled"]

\* expireOldSessions: every pending session whose expiresAt is before now.
expireOldSessions(rows, t) ==
  [k \in 1..Len(rows) |->
     IF rows[k].status = "pending" /\ StringLess(rows[k].expiresAt, toISOString(t))
       THEN [rows[k] EXCEPT !.status = "expired"]
       ELSE rows[k]]

\* syncCheckoutStatus: the processor's status mapped to the local one.
PolarCheckoutStatuses == {"open", "confirmed", "succeeded", "expired", "canceled"}
mapCheckoutStatus(polarStatus) ==
  IF polarStatus = "succeeded" THEN "completed"
  ELSE IF polarStatus = "expired" THEN "expired"
  ELSE IF polarStatus = "canceled" THEN "canceled"
  ELSE "pending"

\* updateCheckoutStatus: patches the status it is given.
updateCheckoutStatus(rows, sessionId, status, t) ==
  [rows EXCEPT ![sessionId].status = status,
               ![sessionId].completedAt =
                  IF status = "completed" THEN toISOString(t) ELSE @]

\* handleCheckoutUpdated with status succeeded or completed.
CompleteCheckoutSession(polarCheckoutId, completedAt) ==
  /\ checkoutSessions' =
       completeCheckoutSession(checkoutSessions, polarCheckoutId, completedAt, now)
  /\ UNCHANGED checkoutRun

CancelCheckoutSession(sessionId, owner) ==
  /\ sessionId \in 1..Len(checkoutSessions)
  /\ checkoutSessions' =
       IF cancelCheckoutSessionThrows(checkoutSessions, sessionId, owner)
         THEN checkoutSessions
         ELSE cancelCheckoutSession(checkoutSessions, sessionId)
  /\ UNCHANGED checkoutRun

ExpireOldSessions ==
  /\ checkoutSessions' = expireOldSessions(checkoutSessions, now)
  /\ UNCHANGED checkoutRun

\* syncCheckoutStatus: runQuery(getCheckoutSessionInternal); it throws for an
\* unknown session (sessions are never deleted, so a known one stays known).
SyncCheckoutStart(sessionId) ==
  /\ checkoutRun.pc = "idle"
  /\ sessionId \in 1..Len(checkoutSessions)
  /\ checkoutRun' = [pc |-> "get", sessionId |-> sessionId, status |-> ""]
  /\ UNCHANGED checkoutSessions

\* polarApi.checkouts.get answers with a status, or throws.
SyncCheckoutGet(polarStatus, throws) ==
  /\ checkoutRun.pc = "get"
  /\ checkoutRun' = IF throws THEN IdleCheckoutSync
                    ELSE [checkoutRun EXCEPT !.pc = "update",
                                             !.status = mapCheckoutStatus(polarStatus)]
  /\ UNCHANGED checkoutSessions

\* runMutation(updateCheckoutStatus), then the return.
SyncCheckoutUpdate ==
  /\ checkoutRun.pc = "update"
  /\ checkoutSessions' = updateCheckoutStatus(checkoutSessions, checkoutRun.sessionId,
                                              checkoutRun.status, now)
  /\ checkoutRun' = IdleCheckoutSync

\* Two sessions, one that expires on day 2 and one that expires after the
\* last day.
InitCheckout ==
  /\ IdleWebhook
  /\ customers = <<>>
  /\ subscriptions = <<>>
  /\ IdleBreaker
  /\ reconcileRun = IdleReconcile
  /\ auditLogs = <<>>
  /\ polarCallLog = {}
  /\ syncRun = IdleSync
  /\ billingSettings = <<>>
  /\ syncLog = NoSyncRuns
  /\ polar = PolarInitially
  /\ statusCalls = <<>>
  /\ lastOp = NoOp
  /\ cancelRun = IdleCancel
  /\ invoices = <<>>
  /\ invoiceRun = IdleInvoiceSync
  /\ usageEvents = <<>>
  /\ cleanupRun = IdleCleanup
  /\ usageRun = IdleUsage
  /\ httpCall = NoHttpCall
  /\ usageOverlap = IdleUsage
  /\ checkoutSessions = << CheckoutSession("co_1", 2), CheckoutSession("co_2", MaxTime + 1) >>
  /\ checkoutRun = IdleCheckoutSync
  /\ resumeRun = IdleResume

CheckoutFrame ==
  UNCHANGED <<webhookVars, tableVars, circuitBreaker, breakerLog, reconcileVars,
              polarCallLog, syncVars, polar, lifecycleVars, invoices, invoiceRun,
              usageEvents, cleanupRun, usageRun, httpCall, usageOverlap, resumeRun>>

NextCheckout ==
  \/ \E id \in {"co_1", "co_2", "co_3"}, at \in {Undefined, ProcessorTime} :
       CompleteCheckoutSession(id, at) /\ UNCHANGED now /\ CheckoutFrame
  \/ \E k \in {1, 2}, owner \in BOOLEAN :
       CancelCheckoutSession(k, owner) /\ UNCHANGED now /\ CheckoutFrame
  \/ ExpireOldSessions /\ UNCHANGED now /\ CheckoutFrame
  \/ \E k \in {1, 2} : SyncCheckoutStart(k) /\ UNCHANGED now /\ CheckoutFrame
  \/ \E st \in PolarCheckoutStatuses, throws \in BOOLEAN :
       SyncCheckoutGet(st, throws) /\ UNCHANGED now /\ CheckoutFrame
  \/ SyncCheckoutUpdate /\ UNCHANGED now /\ CheckoutFrame
  \/ Tick /\ BreakerFrame

SpecCheckout == InitCheckout /\ [][NextCheckout]_vars

resumeSubscriptionArgs(t) ==
  [NoUpdates EXCEPT
     !.cancelAtPeriodEnd = Some(FALSE),
     !.canceledAt = Undefined,
     !.metadata = {<<"resumedAt", t>>}]

\* resumeSubscription throws before the processor call when the caller does
\* not own the subscription or it is not scheduled for cancellation.
resumeSubscriptionThrows(subs, subscriptionId, owner) ==
  ~owner \/ ~subs[subscriptionId].cancelAtPeriodEnd

\* resumeSubscription up to the processor's answer: getSubscriptionById, the
\* ownership check, the cancelAtPeriodEnd check, polarApi.subscriptions.update.
ResumeSubscriptionCall(subscriptionId, owner, callThrows) ==
  /\ resumeRun.pc = "idle"
  /\ subscriptionId \in 1..Len(subscriptions)
  /\ resumeRun' =
       [pc |-> IF resumeSubscriptionThrows(subscriptions, subscriptionId, owner)
                   \/ callThrows
                 THEN "threw" ELSE "update",
        subscriptionId |-> subscriptionId,
        allowed |-> ~resumeSubscriptionThrows(subscriptions, subscriptionId, owner)]
  /\ UNCHANGED subscriptions

\* runMutation(updateSubscription, ...) and the return {success: true}.
ResumeSubscriptionUpdate ==
  /\ resumeRun.pc = "update"
  /\ subscriptions' = updateSubscription(subscriptions, resumeRun.subscriptionId,
                                         resumeSubscriptionArgs(now))
  /\ resumeRun' = [resumeRun EXCEPT !.pc = "returned"]

\* The call has ended; the caller may call again.
ResumeSubscriptionEnded ==
  /\ resumeRun.pc \in {"threw", "returned"}
  /\ resumeRun' = IdleResume
  /\ UNCHANGED subscriptions

\* The owner cancels (at period end or at once) and resumes, over the
\* subscription sub_1.
ResumeFrame ==
  UNCHANGED <<webhookVars, customers, breakerVars, reconcileVars, polarCallLog,
              syncVars, polar, lifecycleVars, invoices, invoiceRun, usageEvents,
              cleanupRun, usageRun, httpCall, usageOverlap, checkoutVars>>

NextResume ==
  \/ \E a \in CancelRequests, owner \in BOOLEAN, callThrows \in BOOLEAN :
       CancelSubscriptionCall(a, owner, callThrows) /\ LifecycleFrame
  \/ CancelSubscriptionUpdate /\ LifecycleFrame
  \/ CancelSubscriptionThrew /\ LifecycleFrame
  \/ \E owner \in BOOLEAN, callThrows \in BOOLEAN :
       ResumeSubscriptionCall(1, owner, callThrows) /\ ResumeFrame
  \/ ResumeSubscriptionUpdate /\ ResumeFrame
  \/ ResumeSubscriptionEnded /\ ResumeFrame
  \/ Tick /\ BreakerFrame

SpecResume == InitLifecycle /\ [][NextResume]_vars

CancelFields(row) ==
  <<row.status, row.cancelAtPeriodEnd, row.canceledAt, row.metadata>>

\* C40: when cancelSubscription's ownership check fails no processor call is
\* made; when the ownership check or the processor call fails the call throws,
\* and neither the step in which it throws nor the one that ends it changes
\* the status, cancelAtPeriodEnd, canceledAt or metadata of any subscription.
C40_CancelAllOrNothing ==
  [][ /\ (cancelRun.pc = "idle" /\ cancelRun'.pc # "idle") =>
           /\ ~cancelRun'.owner => (~cancelRun'.called /\ polar' = polar)
           /\ (~cancelRun'.owner \/ cancelRun'.callThrew) =>
                /\ cancelRun'.pc = "threw"
                /\ Len(subscriptions') = Len(subscriptions)
                /\ \A i \in 1..Len(subscriptions) :
                     CancelFields(subscriptions'[i]) = CancelFields(subscriptions[i])
      /\ cancelRun.pc = "threw" =>
           /\ Len(subscriptions') = Len(subscriptions)
           /\ \A i \in 1..Len(subscriptions) :
                (cancelRun'.pc = "idle" /\ cancelRun' # cancelRun) =>
                  CancelFields(subscriptions'[i]) = CancelFields(subscriptions[i]) ]_vars
\* A call by someone who does not own the subscription has thrown, after an
\* earlier cancellation had been recorded.
C40_Witness ==
  /\ cancelRun.pc = "threw"
  /\ ~cancelRun.owner
  /\ ~cancelRun.called
  /\ subscriptions[1].canceledAt # Undefined
\* The processor call of the owner has thrown.
C40_CallThrew ==
  /\ cancelRun.pc = "threw"
  /\ cancelRun.callThrew
====
